---- MODULE Spec2Model ----
(***************************************************************************)
(* remote-vault-sync: the sync orchestrator (main.tsx), the large-object   *)
(* offload engine (s3-lfs.ts) and the git capability set they drive,       *)
(* modelled as a state machine.                                            *)
(*                                                                         *)
(* File contents are sequences of lines.  A line is a triple               *)
(* <<kind, number, payload>>; the payload of an oid line is the digest.    *)
(* A SHA-256 digest is modelled as an ideal collision-free digest: the     *)
(* digest of a content is represented by that content.                     *)
(***************************************************************************)
EXTENDS FiniteSets, Integers, Sequences, TLC

VARIABLES
    worktree,     \* working tree: file -> content (Absent when the file does not exist)
    git,          \* local .git: HEAD, index, unmerged paths, MERGE_HEAD, FETCH_HEAD, objects
    commits,      \* every commit object ever created: id -> [tree, parent]
    remote,       \* the mirrored .git in the store: entry -> content (refs, objects)
    lfsStore,     \* object store, keys under lfs/: key -> content
    locked,       \* VaultSync.locked
    pendingMerge, \* VaultSync.pendingMerge: [preHead, modal] or NoMerge
    modals,       \* open merge modals: modal id -> what its callbacks captured
    statusBarState, \* VaultSync.statusBarState.status
    refreshPending, \* a debounced refreshStatus is scheduled
    proc,         \* the async invocations in flight: slot -> frame
    last,         \* the invocation that ended most recently: [op, res]
    used,         \* how much of each bound the run has consumed
    lfsPc,        \* offload engine runs: file -> "plain" | "cleaned" | "smudged"
    lfsOrig,      \* offload engine runs: file -> content the last successful clean read
    lfsCleans,    \* offload engine runs: number of clean calls made so far
    conn,         \* VaultSync.connect: its position, what it probed, the branch it took
    strip,        \* stripConflictMarkers runs: the parts of the input file, the output
    ptr,          \* formatPointer / parsePointer runs: the text, the parse result
    s3run         \* S3 client runs: the call, the requests it has issued, its result

-----------------------------------------------------------------------------
(* Bounds *)

MaxCalls == 2         \* Push, Pull, Restore and Resolve invocations in one run
MaxEdits == 1         \* edits the user makes to the vault in one run
MaxRemotePushes == 1  \* pushes another client makes to the same remote in one run
MaxFaults == 1        \* store or git calls that fail in one run
MaxProcs == 2         \* invocations in flight at the same time
MaxLen == 3           \* longest file content, in lines, the offload engine is run on
MaxCleans == 2        \* clean calls in one run of the offload engine on its own
MaxBody == 1          \* longest body (and text around the conflict) given to stripConflictMarkers
MaxPtrLen == 4        \* longest text, in lines, given to parsePointer
MaxCopySize == 30     \* largest object size given to copy, in quarter GiB
MaxPages == 3         \* most pages a listing is spread over
MaxKeys == 2001       \* most keys given to delete

-----------------------------------------------------------------------------
(* Contents *)

Txt(n) == <<"txt", n, <<>>>>
VersionLine == <<"version", 0, <<>>>>
VersionLineExtra == <<"version+", 0, <<>>>>
OidLine(oid) == <<"oid", 0, oid>>
RECURSIVE toString(_)
\* `${size}`: the decimal digits of a non-negative integer, most significant first
toString(n) ==
    IF n < 10 THEN << <<"digit", n, <<>>>> >>
    ELSE Append(toString(n \div 10), <<"digit", n % 10, <<>>>>)

RECURSIVE parseInt(_)
\* parseInt(digits, 10)
parseInt(ds) ==
    IF ds = <<>> THEN 0 ELSE 10 * parseInt(SubSeq(ds, 1, Len(ds) - 1)) + ds[Len(ds)][2]

SizeLine(n) == <<"size", 0, toString(n)>>
\* an oid line whose hash is not 64 lowercase hex characters: it does not
\* match /^oid sha256:([a-f0-9]{64})$/m
OidLineBad(oid) == <<"oid?", 0, oid>>

Absent == << <<"ENOENT", 0, <<>>>> >>

Min(S) == CHOOSE x \in S : \A y \in S : x <= y

Size(content) == Len(content)

Sha256(content) == content

formatPointer(oid, size) == <<VersionLine, OidLine(oid), SizeLine(size)>>

NoPointer == [oid |-> <<>>, size |-> -1]

StartsWithVersion(content) ==
    /\ Len(content) > 0
    /\ content[1][1] \in {"version", "version+"}

\* a parser without the startsWith test
parsePointerAnyStart(content) ==
    LET oids == {i \in 1..Len(content) : content[i][1] = "oid"}
        sizes == {i \in 1..Len(content) : content[i][1] = "size"}
    IN  IF oids = {} \/ sizes = {} THEN NoPointer
        ELSE [oid |-> content[Min(oids)][3], size |-> parseInt(content[Min(sizes)][3])]

parsePointer(content) ==
    IF ~StartsWithVersion(content) THEN NoPointer
    ELSE LET oids == {i \in 1..Len(content) : content[i][1] = "oid"}
             sizes == {i \in 1..Len(content) : content[i][1] = "size"}
         IN  IF oids = {} \/ sizes = {} THEN NoPointer
             ELSE [oid |-> content[Min(oids)][3], size |-> parseInt(content[Min(sizes)][3])]

-----------------------------------------------------------------------------
(* Object store *)

S3Put(store, k, data) ==
    [x \in DOMAIN store \cup {k} |-> IF x = k THEN data ELSE store[x]]

S3Delete(store, k) == [x \in DOMAIN store \ {k} |-> store[x]]

S3Copy(store, src, dest) == S3Put(store, dest, store[src])

EmptyStore == [x \in {} |-> <<>>]

-----------------------------------------------------------------------------
(* Large-object offload engine *)

\* a key that does not depend on the digest: every object lands on one key
keyIgnoresOid(oid) == <<"lfs/", <<>>>>

key(oid) == <<"lfs/", oid>>

tempKey == <<"lfs/tmp/", <<>>>>

CleanFaults == {"none", "put", "copy", "delete"}

\* a clean that never copies the upload to the content-addressed key
cleanNoCopy(wt, store, f, fault) ==
    LET content == wt[f]
        oid == Sha256(content)
        s1 == S3Put(store, tempKey, content)
        s3 == S3Delete(s1, tempKey)
    IN  IF content = Absent \/ fault # "none" THEN [wt |-> wt, store |-> store, ok |-> FALSE]
        ELSE [wt |-> [wt EXCEPT ![f] = formatPointer(oid, Size(content))],
              store |-> s3, ok |-> TRUE]

\* clean: upload to a temporary key, copy to the content-addressed key,
\* delete the temporary key, overwrite the file with the pointer.
\* fault names the store call that throws, if any.
clean(wt, store, f, fault) ==
    LET content == wt[f]
        oid == Sha256(content)
        s1 == S3Put(store, tempKey, content)
        s2 == S3Copy(s1, tempKey, key(oid))
        s3 == S3Delete(s2, tempKey)
    IN  IF content = Absent THEN [wt |-> wt, store |-> store, ok |-> FALSE]
        ELSE IF fault = "put" THEN [wt |-> wt, store |-> store, ok |-> FALSE]
        ELSE IF fault = "copy" THEN [wt |-> wt, store |-> s1, ok |-> FALSE]
        ELSE IF fault = "delete" THEN [wt |-> wt, store |-> s2, ok |-> FALSE]
        ELSE [wt |-> [wt EXCEPT ![f] = formatPointer(oid, Size(content))],
              store |-> s3, ok |-> TRUE]

SmudgeFaults == {"none", "get", "pipe"}

\* smudge: a file that does not parse as a pointer is left alone; otherwise
\* the object is streamed over the file.  A stream that breaks after the
\* write stream was opened leaves the file truncated.
smudge(wt, store, f, fault) ==
    LET pointer == parsePointer(wt[f])
    IN  IF wt[f] = Absent THEN [wt |-> wt, ok |-> FALSE]
        ELSE IF pointer = NoPointer THEN [wt |-> wt, ok |-> TRUE]
        ELSE IF fault = "get" \/ key(pointer.oid) \notin DOMAIN store
             THEN [wt |-> wt, ok |-> FALSE]
        ELSE IF fault = "pipe" THEN [wt |-> [wt EXCEPT ![f] = <<>>], ok |-> FALSE]
        ELSE [wt |-> [wt EXCEPT ![f] = store[key(pointer.oid)]], ok |-> TRUE]

isLfsPointer(wt, f) == StartsWithVersion(wt[f])


-----------------------------------------------------------------------------
(* Working tree files and the git capability set *)

Files == {"a.png", "n.md"}

\* .gitattributes as written by ensureGitAttributes: "*.png binary" and the like
getLfsPatterns == {"a.png"}

match(f) == f \in getLfsPatterns

\* how a line ends; the number of a marker-like line is its line ending
LF == 0
CRLF == 1
NoEol == 2

MarkerKinds == {"<<<<<<<", "=======", ">>>>>>>"}

\* /^<<<<<<< HEAD\n/gm, /^=======\n/gm, /^>>>>>>> .*\n/gm replaced by "": a
\* marker-like line goes only if "\n" follows its text directly
stripConflictMarkers(content) ==
    SelectSeq(content, LAMBDA line : ~(line[1] \in MarkerKinds /\ line[2] = LF))

\* the tree of a commit; the empty tree while HEAD is unborn
Tree(c) == IF c = 0 THEN [f \in Files |-> Absent] ELSE commits[c].tree

RECURSIVE Anc(_)
Anc(c) == IF c = 0 THEN {} ELSE {c} \cup UNION {Anc(q) : q \in commits[c].parent}

IsAncestor(a, b) == a \in Anc(b)

\* the best common ancestor of two commits (0 when they share none)
MergeBase(a, b) ==
    LET common == Anc(a) \cap Anc(b)
    IN  IF common = {} THEN 0
        ELSE CHOOSE c \in common : \A d \in common : Cardinality(Anc(d)) <= Cardinality(Anc(c))

BaseTree(a, b) ==
    IF MergeBase(a, b) = 0 THEN [f \in Files |-> Absent] ELSE Tree(MergeBase(a, b))

\* git status --porcelain -u, one line per path: <<index code, worktree code>>
PorcelainCodes(g, wt, f) ==
    LET T == Tree(g.HEAD)[f]
        I == g.index[f]
        W == wt[f]
        ours == T
        theirs == Tree(g.MERGE_HEAD)[f]
    IN  IF f \in g.unmerged
        THEN IF ours = Absent THEN <<"D", "U">>
             ELSE IF theirs = Absent THEN <<"U", "D">>
             ELSE IF BaseTree(g.HEAD, g.MERGE_HEAD)[f] = Absent THEN <<"A", "A">>
             ELSE <<"U", "U">>
        ELSE IF I = Absent /\ T = Absent
             THEN IF W = Absent THEN <<" ", " ">> ELSE <<"?", "?">>
        ELSE <<IF I = T THEN " " ELSE IF T = Absent THEN "A" ELSE IF I = Absent THEN "D" ELSE "M",
               IF W = I \/ I = Absent THEN " " ELSE IF W = Absent THEN "D" ELSE "M">>

\* Git.status: the four path sets parsed from the porcelain codes
status(g, wt) ==
    LET code(f) == PorcelainCodes(g, wt, f)
    IN  [staged    |-> {f \in Files : code(f)[1] \in {"A", "M", "R"}},
         modified  |-> {f \in Files : code(f)[2] = "M"},
         untracked |-> {f \in Files : code(f)[1] = "?" /\ code(f)[2] = "?"},
         deleted   |-> {f \in Files : code(f)[1] = "D" \/ code(f)[2] = "D"}]

\* git add -A
addAll(g, wt) == [g EXCEPT !.index = wt, !.unmerged = {}]

\* git add <file>
add(g, wt, f) == [g EXCEPT !.index[f] = wt[f], !.unmerged = @ \ {f}]

NewCommit(tree, parent) == [tree |-> tree, parent |-> parent]

\* git commit -m: [ok, g, commits]
commit(g, cs) ==
    LET id == Len(cs) + 1
    IN  IF g.unmerged # {} THEN [ok |-> FALSE, g |-> g, commits |-> cs]
        ELSE IF g.MERGE_HEAD # 0
        THEN [ok |-> TRUE,
              g |-> [g EXCEPT !.HEAD = id, !.MERGE_HEAD = 0, !.objects = @ \cup {id}],
              commits |-> Append(cs, NewCommit(g.index, {g.HEAD, g.MERGE_HEAD}))]
        ELSE IF g.index = cs[g.HEAD].tree THEN [ok |-> FALSE, g |-> g, commits |-> cs]
        ELSE [ok |-> TRUE,
              g |-> [g EXCEPT !.HEAD = id, !.objects = @ \cup {id}],
              commits |-> Append(cs, NewCommit(g.index, {g.HEAD}))]

\* three-way merge of one path: the merged content, or Conflict
Conflict == << <<"CONFLICT", 0, <<>>>> >>

Merge3(base, ours, theirs) ==
    IF ours = theirs THEN ours
    ELSE IF ours = base THEN theirs
    ELSE IF theirs = base THEN ours
    ELSE Conflict

\* what a conflicting merge leaves in the working tree for a path
ConflictContent(f, ours, theirs) ==
    IF match(f) \/ theirs = Absent THEN ours
    ELSE IF ours = Absent THEN theirs
    ELSE << <<"<<<<<<<", LF, <<>>>> >> \o ours \o << <<"=======", LF, <<>>>> >>
            \o theirs \o << <<">>>>>>>", LF, <<>>>> >>

\* git merge FETCH_HEAD -m "merge remote": [ok, g, wt, commits]
merge(g, wt, cs) ==
    LET target == g.FETCH_HEAD
        fail == [ok |-> FALSE, g |-> g, wt |-> wt, commits |-> cs]
        base == BaseTree(g.HEAD, target)
        ours == Tree(g.HEAD)
        theirs == Tree(target)
        touched == {f \in Files : theirs[f] # base[f]}
        dirty == \E f \in Files :
                    \/ g.index[f] # ours[f]
                    \/ f \in touched /\ wt[f] # ours[f]
        merged == [f \in Files |-> Merge3(base[f], ours[f], theirs[f])]
        conflicts == {f \in Files : merged[f] = Conflict}
        id == Len(cs) + 1
    IN  IF target = 0 \/ g.MERGE_HEAD # 0 \/ g.unmerged # {} THEN fail
        ELSE IF IsAncestor(target, g.HEAD)
        THEN [ok |-> TRUE, g |-> g, wt |-> wt, commits |-> cs]
        ELSE IF dirty THEN fail
        ELSE IF IsAncestor(g.HEAD, target)
        THEN [ok |-> TRUE,
              g |-> [g EXCEPT !.HEAD = target, !.index = theirs],
              wt |-> [f \in Files |-> IF f \in touched THEN theirs[f] ELSE wt[f]],
              commits |-> cs]
        ELSE IF conflicts = {}
        THEN [ok |-> TRUE,
              g |-> [g EXCEPT !.HEAD = id, !.index = merged, !.objects = @ \cup {id}],
              wt |-> [f \in Files |-> IF f \in touched THEN merged[f] ELSE wt[f]],
              commits |-> Append(cs, NewCommit(merged, {g.HEAD, target}))]
        ELSE [ok |-> FALSE,
              g |-> [g EXCEPT !.MERGE_HEAD = target, !.unmerged = conflicts,
                              !.index = [f \in Files |->
                                  IF f \in conflicts THEN ours[f] ELSE merged[f]]],
              wt |-> [f \in Files |->
                        IF f \in conflicts THEN ConflictContent(f, ours[f], theirs[f])
                        ELSE IF f \in touched THEN merged[f] ELSE wt[f]],
              commits |-> cs]

\* git merge --abort: [ok, g, wt]
mergeAbort(g, wt) ==
    IF g.MERGE_HEAD = 0 THEN [ok |-> FALSE, g |-> g, wt |-> wt]
    ELSE [ok |-> TRUE,
          g |-> [g EXCEPT !.MERGE_HEAD = 0, !.unmerged = {}, !.index = Tree(g.HEAD)],
          wt |-> [f \in Files |->
                    IF g.index[f] # Tree(g.HEAD)[f] \/ f \in g.unmerged
                    THEN Tree(g.HEAD)[f] ELSE wt[f]]]

\* git reset --hard <ref>: [g, wt]; untracked files stay
resetHard(g, wt, ref) ==
    [g |-> [g EXCEPT !.HEAD = ref, !.MERGE_HEAD = 0, !.unmerged = {}, !.index = Tree(ref)],
     wt |-> [f \in Files |->
               IF g.index[f] = Absent /\ Tree(g.HEAD)[f] = Absent /\ Tree(ref)[f] = Absent
               THEN wt[f] ELSE Tree(ref)[f]]]

\* git restore . : [ok, wt]; refuses unmerged paths
restoreAll(g, wt) ==
    IF g.unmerged # {} THEN [ok |-> FALSE, wt |-> wt]
    ELSE [ok |-> TRUE,
          wt |-> [f \in Files |-> IF g.index[f] = Absent THEN wt[f] ELSE g.index[f]]]

\* git checkout --ours / --theirs <file>: [ok, wt]
checkoutSide(g, wt, f, side) ==
    LET stage == IF side = "ours" THEN Tree(g.HEAD)[f] ELSE Tree(g.MERGE_HEAD)[f]
    IN  IF f \in g.unmerged
        THEN IF g.MERGE_HEAD = 0 \/ stage = Absent THEN [ok |-> FALSE, wt |-> wt]
             ELSE [ok |-> TRUE, wt |-> [wt EXCEPT ![f] = stage]]
        ELSE IF g.index[f] = Absent THEN [ok |-> FALSE, wt |-> wt]
        ELSE [ok |-> TRUE, wt |-> [wt EXCEPT ![f] = g.index[f]]]

\* smudgeFiles over the tracked-pattern files present in the working tree,
\* one after the other; fault is the store fault injected into the smudge of
\* faultFile.  [ok, wt]
LfsOrder == <<"a.png">>

RECURSIVE smudgeFrom(_, _, _, _, _)
smudgeFrom(i, wt, store, faultFile, fault) ==
    IF i > Len(LfsOrder) THEN [wt |-> wt, ok |-> TRUE]
    ELSE IF wt[LfsOrder[i]] = Absent THEN smudgeFrom(i + 1, wt, store, faultFile, fault)
    ELSE LET r == smudge(wt, store, LfsOrder[i],
                         IF LfsOrder[i] = faultFile THEN fault ELSE "none")
         IN  IF r.ok THEN smudgeFrom(i + 1, r.wt, store, faultFile, fault) ELSE r

smudgeFiles(wt, store, faultFile, fault) == smudgeFrom(1, wt, store, faultFile, fault)

-----------------------------------------------------------------------------
(* Sync orchestrator: state *)

Slots == 1..MaxProcs

NoMerge == [preHead |-> 0, modal |-> 0]

NoModals == [m \in {} |-> <<>>]

GitDirEntries == {"objects", "refs"}

Idle ==
    [op |-> "none", pc |-> "idle", hasChanges |-> FALSE, lfsFiles |-> <<>>,
     localHead |-> 0, remoteHead |-> 0, remoteSeen |-> 0, preHead |-> 0,
     preTree |-> <<>>, modal |-> 0, files |-> <<>>, resolutions |-> <<>>,
     todo |-> {}, wrote |-> FALSE, content |-> <<>>]

Tree0 == [f \in Files |-> IF f = "n.md" THEN <<Txt(1)>> ELSE Absent]

\* what the user types and what the other client commits: fresh contents
LocalContent(f, k) == <<Txt((IF f = "n.md" THEN 10 ELSE 20) + k)>>
RemoteContent(k) == <<Txt(30 + k)>>

\* the variables no step of push, pull, restore, resolveMerge or cancelMerge writes
OrchVarsOfLfs == <<lfsPc, lfsOrig, lfsCleans, conn, strip, ptr, s3run>>

\* stripConflictMarkers is not being run
NoStrip == [pc |-> "none", pre |-> <<>>, ours |-> <<>>, theirs |-> <<>>, post |-> <<>>,
            eol |-> LF, endEol |-> LF, out |-> <<>>]

\* formatPointer / parsePointer are not being run
NoPtr == [pc |-> "none", text |-> <<>>, formatted |-> FALSE, oid |-> <<>>, size |-> 0,
          out |-> NoPointer]

\* no S3 client call is being run
NoSize == -1

NoS3 == [pc |-> "none", call |-> "none", size |-> NoSize, head |-> NoSize, copySize |-> 0,
         i |-> 0, partNum |-> 1, parts |-> <<>>, keys |-> <<>>, pages |-> <<>>,
         results |-> <<>>, reqs |-> <<>>, out |-> <<>>, exists |-> FALSE]

\* connect has run to its end on a vault that already had a local repository
Connected ==
    [pc |-> "done", git |-> TRUE, localGit |-> TRUE, branch |-> "connected",
     hadLocal |-> TRUE, hadRemote |-> FALSE, probeFailed |-> FALSE, doneAt |-> 0,
     configured |-> TRUE, s3 |-> TRUE, headRef |-> "main"]

\* c is the connection state: the clients, and the branch HEAD refers to
InitWith(c) ==
    /\ commits = <<NewCommit(Tree0, {})>>
    /\ worktree = Tree0
    /\ git = [HEAD |-> 1, index |-> Tree0, unmerged |-> {}, MERGE_HEAD |-> 0,
              FETCH_HEAD |-> 0, objects |-> {1}]
    /\ remote \in {[refs |-> 1, objects |-> {1}], [refs |-> 0, objects |-> {}]}
    /\ lfsStore = EmptyStore
    /\ locked = FALSE
    /\ pendingMerge = NoMerge
    /\ modals = NoModals
    /\ statusBarState = "clean"
    /\ refreshPending = FALSE
    /\ proc = [p \in Slots |-> Idle]
    /\ last = [op |-> "none", res |-> "none"]
    /\ used = [calls |-> 0, edits |-> 0, remotes |-> 0, faults |-> 0, modals |-> 0]
    /\ lfsPc = <<>>
    /\ lfsOrig = <<>>
    /\ lfsCleans = 0
    /\ conn = c
    /\ strip = NoStrip
    /\ ptr = NoPtr
    /\ s3run = NoS3

\* a repository whose branch is called main
Init == InitWith(Connected)

\* git init names the branch after init.defaultBranch: master unless configured
BranchInit == \E b \in {"main", "master"} : InitWith([Connected EXCEPT !.headRef = b])

FreeSlot(p) == /\ proc[p].pc = "idle"
               /\ \A q \in Slots : q < p => proc[q].pc # "idle"

At(p, op, pc) == proc[p].op = op /\ proc[p].pc = pc

\* the faults a step may suffer: "none", or one of kinds while the budget lasts
Faults(kinds) == {"none"} \cup (IF used.faults < MaxFaults THEN kinds ELSE {})

Spend(fault) == IF fault = "none" THEN used ELSE [used EXCEPT !.faults = @ + 1]

SetToSeq(S) ==
    IF S = {} THEN <<>>
    ELSE CHOOSE q \in [1..Cardinality(S) -> S] : \A i, j \in 1..Cardinality(S) : i # j => q[i] # q[j]

\* an invocation ends: its frame is dropped and its outcome recorded
End(p, res) ==
    /\ proc' = [proc EXCEPT ![p] = Idle]
    /\ last' = [op |-> proc[p].op, res |-> res]

Goto(p, pc) == [proc[p] EXCEPT !.pc = pc]

-----------------------------------------------------------------------------
(* Remote history: getRemoteHead, fetch from the staged copy, mirror-up *)

\* getRemoteHead: the sha the remote head pointer resolves to; null (0) when
\* the pointer is absent or the read throws
getRemoteHead(rem, fault) == IF fault = "s3" THEN 0 ELSE rem.refs

\* copyDirFromS3ToPath(".git", tmp) followed by git fetch tmp main: [ok, g];
\* the mirror holds the branch of the local repository, and git fetch exits
\* non-zero if the mirror has no branch called main
fetch(g, rem, fault) ==
    IF \/ fault = "s3" \/ rem.refs = 0 \/ ~(Anc(rem.refs) \subseteq rem.objects)
       \/ conn.headRef # "main"
    THEN [ok |-> FALSE, g |-> g]
    ELSE [ok |-> TRUE,
          g |-> [g EXCEPT !.FETCH_HEAD = rem.refs, !.objects = @ \cup Anc(rem.refs)]]

\* copyDirToS3: the upload of one entry of .git
writeEntry(rem, g, e) ==
    IF e = "refs" THEN [rem EXCEPT !.refs = g.HEAD]
    ELSE [rem EXCEPT !.objects = @ \cup g.objects]

\* a tip comparison that skips the ancestor test
needsMergeAlways(remoteHead, newLocalHead) ==
    remoteHead # 0 /\ remoteHead # newLocalHead

\* push, after the commit: remote tip known, different, and not an ancestor
needsMerge(remoteHead, newLocalHead) ==
    /\ remoteHead # 0
    /\ remoteHead # newLocalHead
    /\ ~IsAncestor(remoteHead, newLocalHead)

-----------------------------------------------------------------------------
(* The user and the other client *)

\* the user writes files of the vault and may stage them (git add) outside
\* the plug-in; Git.status reports such paths in its staged set
UserEdit ==
    \E S \in SUBSET Files \ {{}}, stage \in BOOLEAN :
        LET wt == [f \in Files |->
                      IF f \in S THEN LocalContent(f, used.edits) ELSE worktree[f]]
        IN  /\ used.edits < MaxEdits
            /\ used' = [used EXCEPT !.edits = @ + 1]
            /\ worktree' = wt
            /\ git' = IF stage /\ conn.localGit /\ git.unmerged = {}
                      THEN [git EXCEPT !.index = [f \in Files |->
                                                    IF f \in S THEN wt[f] ELSE @[f]]]
                      ELSE git
            /\ refreshPending' = TRUE
            /\ UNCHANGED <<commits, remote, lfsStore, locked, pendingMerge, modals,
                           statusBarState, proc, last, OrchVarsOfLfs>>

OtherClientPush ==
    LET id == Len(commits) + 1
        tree == [Tree(remote.refs) EXCEPT !["n.md"] = RemoteContent(used.remotes)]
    IN  /\ used.remotes < MaxRemotePushes
        /\ remote.refs # 0
        /\ Anc(remote.refs) \subseteq remote.objects
        /\ used' = [used EXCEPT !.remotes = @ + 1]
        /\ commits' = Append(commits, NewCommit(tree, {remote.refs}))
        /\ remote' = [refs |-> id, objects |-> remote.objects \cup {id}]
        /\ UNCHANGED <<worktree, git, lfsStore, locked, pendingMerge, modals,
                       statusBarState, refreshPending, proc, last, OrchVarsOfLfs>>

\* the debounced _refreshStatus
RefreshStatus ==
    LET st == status(git, worktree)
        isClean == st.staged = {} /\ st.modified = {} /\ st.untracked = {} /\ st.deleted = {}
    IN  /\ refreshPending
        /\ refreshPending' = FALSE
        /\ statusBarState' = IF isClean THEN "clean" ELSE "changes"
        /\ UNCHANGED <<worktree, git, commits, remote, lfsStore, locked, pendingMerge,
                       modals, proc, last, used, OrchVarsOfLfs>>

-----------------------------------------------------------------------------
(* Entry of Push, Pull and Restore: the busy flag is read here *)

Call(op, pc) ==
    /\ used.calls < MaxCalls
    /\ used' = [used EXCEPT !.calls = @ + 1]
    /\ IF locked
       THEN /\ last' = [op |-> op, res |-> "noop"]
            /\ UNCHANGED proc
       ELSE IF ~conn.git \/ ~conn.s3
       THEN /\ last' = [op |-> op, res |-> "notconnected"]
            /\ UNCHANGED proc
       ELSE /\ \E p \in Slots :
                  /\ FreeSlot(p)
                  /\ proc' = [proc EXCEPT ![p] = [Idle EXCEPT !.op = op, !.pc = pc]]
            /\ UNCHANGED last
    /\ UNCHANGED <<worktree, git, commits, remote, lfsStore, locked, pendingMerge, modals,
                   statusBarState, refreshPending, OrchVarsOfLfs>>

CallPush == Call("push", "status")
CallPull == Call("pull", "query")
CallRestore == Call("restore", "confirm")

-----------------------------------------------------------------------------
(* push *)

\* await git.status(); await git.rev("HEAD") -- outside the try block
PushStatus(p) ==
    \E fault \in Faults({"git"}) :
        LET st == status(git, worktree)
        IN  /\ At(p, "push", "status")
            /\ used' = Spend(fault)
            /\ IF fault = "git" \/ git.HEAD = 0
               THEN End(p, "unhandled")
               ELSE /\ proc' = [proc EXCEPT ![p] =
                          [@ EXCEPT !.pc = "remoteHead",
                                    !.hasChanges = st.staged # {} \/ st.modified # {} \/
                                                   st.untracked # {} \/ st.deleted # {},
                                    !.lfsFiles = SelectSeq(SetToSeq(st.untracked) \o
                                                           SetToSeq(st.modified), match),
                                    !.localHead = git.HEAD]]
                    /\ UNCHANGED last
            /\ UNCHANGED <<worktree, git, commits, remote, lfsStore, locked, pendingMerge,
                           modals, statusBarState, refreshPending, OrchVarsOfLfs>>

\* a short-circuit that looks at the tips only
upToDateIgnoresChanges(hasChanges, localHead, remoteHead) == localHead = remoteHead

\* push: "Nothing to do if clean and in sync"
upToDate(hasChanges, localHead, remoteHead) ==
    ~hasChanges /\ localHead = remoteHead

\* await getRemoteHead(); the up-to-date short-circuit; then the flag is taken
PushRemoteHead(p) ==
    \E fault \in Faults({"s3"}) :
        LET remoteHead == getRemoteHead(remote, fault)
            me == proc[p]
        IN  /\ At(p, "push", "remoteHead")
            /\ used' = Spend(fault)
            /\ IF upToDate(me.hasChanges, me.localHead, remoteHead)
               THEN /\ End(p, "uptodate")
                    /\ UNCHANGED <<locked, statusBarState>>
               ELSE /\ locked' = TRUE
                    /\ statusBarState' = IF me.hasChanges THEN "syncing" ELSE statusBarState
                    /\ proc' = [proc EXCEPT ![p] =
                          [@ EXCEPT !.remoteHead = remoteHead, !.remoteSeen = remote.refs,
                                    !.pc = IF ~me.hasChanges THEN "rev"
                                           ELSE IF me.lfsFiles # <<>> THEN "clean"
                                           ELSE "add"]]
                    /\ UNCHANGED last
            /\ UNCHANGED <<worktree, git, commits, remote, lfsStore, pendingMerge, modals,
                           refreshPending, OrchVarsOfLfs>>

\* a catch block without the finally block: the busy flag stays held
FailKeepsFlag(p) ==
    /\ End(p, "failed")
    /\ statusBarState' = "error"
    /\ UNCHANGED locked

\* the catch and finally blocks of push and restore
Fail(p) ==
    /\ End(p, "failed")
    /\ statusBarState' = "error"
    /\ locked' = FALSE

\* await s3lfs.clean(file) for the next file of lfsFiles
PushClean(p) ==
    \E fault \in Faults(CleanFaults \ {"none"}) :
        LET me == proc[p]
            r == clean(worktree, lfsStore, Head(me.lfsFiles), fault)
        IN  /\ At(p, "push", "clean")
            /\ used' = Spend(fault)
            /\ worktree' = r.wt
            /\ lfsStore' = r.store
            /\ IF r.ok
               THEN /\ proc' = [proc EXCEPT ![p] =
                          [@ EXCEPT !.lfsFiles = Tail(@),
                                    !.pc = IF Tail(me.lfsFiles) = <<>> THEN "add" ELSE "clean"]]
                    /\ UNCHANGED <<last, statusBarState, locked>>
               ELSE Fail(p)
            /\ UNCHANGED <<git, commits, remote, pendingMerge, modals, refreshPending,
                           OrchVarsOfLfs>>

\* await git.addAll(); the git process may exit non-zero
PushAddAll(p) ==
    \E fault \in Faults({"git"}) :
        /\ At(p, "push", "add")
        /\ used' = Spend(fault)
        /\ IF fault = "git"
           THEN /\ Fail(p)
                /\ UNCHANGED git
           ELSE /\ git' = addAll(git, worktree)
                /\ proc' = [proc EXCEPT ![p] = Goto(p, "commit")]
                /\ UNCHANGED <<last, statusBarState, locked>>
        /\ UNCHANGED <<worktree, commits, remote, lfsStore, pendingMerge, modals,
                       refreshPending, OrchVarsOfLfs>>

\* await git.commit(generateCommitMessage(status))
PushCommit(p) ==
    LET r == commit(git, commits)
    IN  /\ At(p, "push", "commit")
        /\ git' = r.g
        /\ commits' = r.commits
        /\ IF r.ok
           THEN /\ proc' = [proc EXCEPT ![p] = Goto(p, "rev")]
                /\ UNCHANGED <<last, statusBarState, locked>>
           ELSE Fail(p)
        /\ UNCHANGED <<worktree, remote, lfsStore, pendingMerge, modals, refreshPending,
                       used, OrchVarsOfLfs>>

\* await git.rev("HEAD"); await merge-base --is-ancestor remoteHead newLocalHead
PushRev(p) ==
    LET me == proc[p]
        newLocalHead == git.HEAD
    IN  /\ At(p, "push", "rev")
        /\ IF needsMerge(me.remoteHead, newLocalHead)
           THEN /\ proc' = [proc EXCEPT ![p] =
                      [@ EXCEPT !.pc = "preHead", !.localHead = newLocalHead]]
                /\ UNCHANGED statusBarState
           ELSE /\ proc' = [proc EXCEPT ![p] =
                      [@ EXCEPT !.pc = "mirror", !.localHead = newLocalHead,
                                !.todo = GitDirEntries, !.wrote = FALSE]]
                /\ statusBarState' = "syncing"
        /\ UNCHANGED <<worktree, git, commits, remote, lfsStore, locked, pendingMerge,
                       modals, refreshPending, last, used, OrchVarsOfLfs>>

-----------------------------------------------------------------------------
(* pullAndMerge and showMergeModal, called from push *)

\* const preHead = await git.rev("HEAD")
PullAndMergeRev(p) ==
    /\ At(p, "push", "preHead")
    /\ proc' = [proc EXCEPT ![p] =
          [@ EXCEPT !.pc = "fetch", !.preHead = git.HEAD, !.preTree = worktree]]
    /\ statusBarState' = "syncing"
    /\ UNCHANGED <<worktree, git, commits, remote, lfsStore, locked, pendingMerge, modals,
                   refreshPending, last, used, OrchVarsOfLfs>>

\* the remote .git is staged in the temporary directory and fetched from
PullAndMergeFetch(p) ==
    \E fault \in Faults({"s3"}) :
        LET r == fetch(git, remote, fault)
        IN  /\ At(p, "push", "fetch")
            /\ used' = Spend(fault)
            /\ git' = r.g
            /\ IF r.ok
               THEN /\ proc' = [proc EXCEPT ![p] = Goto(p, "merge")]
                    /\ UNCHANGED <<last, statusBarState, locked>>
               ELSE Fail(p)
            /\ UNCHANGED <<worktree, commits, remote, lfsStore, pendingMerge, modals,
                           refreshPending, OrchVarsOfLfs>>

\* git merge FETCH_HEAD; on success push goes on, unless a merge is pending
PullAndMergeMerge(p) ==
    LET r == merge(git, worktree, commits)
    IN  /\ At(p, "push", "merge")
        /\ git' = r.g
        /\ worktree' = r.wt
        /\ commits' = r.commits
        /\ IF ~r.ok
           THEN /\ proc' = [proc EXCEPT ![p] = Goto(p, "conflicts")]
                /\ UNCHANGED <<last, statusBarState, locked>>
           ELSE IF pendingMerge # NoMerge
           THEN /\ End(p, "suspended")
                /\ locked' = FALSE
                /\ UNCHANGED statusBarState
           ELSE /\ proc' = [proc EXCEPT ![p] =
                      [@ EXCEPT !.pc = "mirror", !.todo = GitDirEntries, !.wrote = FALSE]]
                /\ statusBarState' = "syncing"
                /\ UNCHANGED <<last, locked>>
        /\ UNCHANGED <<remote, lfsStore, pendingMerge, modals, refreshPending, used,
                       OrchVarsOfLfs>>

\* git diff --name-only --diff-filter=U; showMergeModal sets pendingMerge and
\* push returns through its finally block
PullAndMergeConflicts(p) ==
    LET me == proc[p]
        conflicts == git.unmerged
        modal == used.modals + 1
    IN  /\ At(p, "push", "conflicts")
        /\ IF conflicts # {}
           THEN /\ pendingMerge' = [preHead |-> me.preHead, modal |-> modal]
                /\ modals' = [m \in DOMAIN modals \cup {modal} |->
                                IF m = modal
                                THEN [preHead |-> me.preHead, preTree |-> me.preTree,
                                      conflicts |-> conflicts]
                                ELSE modals[m]]
                /\ used' = [used EXCEPT !.modals = modal]
                /\ End(p, "suspended")
                /\ locked' = FALSE
                /\ UNCHANGED statusBarState
           ELSE /\ Fail(p)
                /\ UNCHANGED <<pendingMerge, modals, used>>
        /\ UNCHANGED <<worktree, git, commits, remote, lfsStore, refreshPending,
                       OrchVarsOfLfs>>

\* copyDirToS3(".git"): one entry is uploaded per step, in directory order;
\* after the last one push (or resolveMerge) reports success
copyDirToS3(p) ==
    \E e \in proc[p].todo, fault \in Faults({"s3"}) :
        LET me == proc[p]
            rem == writeEntry(remote, git, e)
        IN  /\ me.pc = "mirror"
            /\ me.op \in {"push", "resolve"}
            /\ used' = Spend(fault)
            /\ IF fault = "s3"
               THEN /\ End(p, "failed")
                    /\ statusBarState' = "error"
                    /\ locked' = IF me.op = "push" THEN FALSE ELSE locked
                    /\ UNCHANGED <<remote, refreshPending>>
               ELSE /\ remote' = rem
                    /\ IF me.todo = {e}
                       THEN /\ End(p, "ok")
                            /\ refreshPending' = TRUE
                            /\ locked' = IF me.op = "push" THEN FALSE ELSE locked
                       ELSE /\ proc' = [proc EXCEPT ![p] =
                                  [@ EXCEPT !.todo = @ \ {e},
                                            !.wrote = @ \/ rem # remote]]
                            /\ UNCHANGED <<last, refreshPending, locked>>
                    /\ UNCHANGED statusBarState
            /\ UNCHANGED <<worktree, git, commits, lfsStore, pendingMerge, modals,
                           OrchVarsOfLfs>>

-----------------------------------------------------------------------------
(* pull *)

\* the catch and finally blocks of pull: a notice, no error phase
PullFail(p) ==
    /\ End(p, "failed")
    /\ locked' = FALSE
    /\ UNCHANGED statusBarState

\* await git.rev("HEAD"); await getRemoteHead() -- outside the try block
PullQuery(p) ==
    \E fault \in Faults({"git", "s3"}) :
        LET remoteHead == getRemoteHead(remote, fault)
        IN  /\ At(p, "pull", "query")
            /\ used' = Spend(fault)
            /\ IF fault = "git"
               THEN /\ End(p, "unhandled")
                    /\ UNCHANGED <<locked, statusBarState>>
               ELSE IF git.HEAD = remoteHead
               THEN /\ End(p, "uptodate")
                    /\ UNCHANGED <<locked, statusBarState>>
               ELSE /\ locked' = TRUE
                    /\ statusBarState' = "syncing"
                    /\ proc' = [proc EXCEPT ![p] = Goto(p, "fetch")]
                    /\ UNCHANGED last
            /\ UNCHANGED <<worktree, git, commits, remote, lfsStore, pendingMerge, modals,
                           refreshPending, OrchVarsOfLfs>>

PullFetch(p) ==
    \E fault \in Faults({"s3"}) :
        LET r == fetch(git, remote, fault)
        IN  /\ At(p, "pull", "fetch")
            /\ used' = Spend(fault)
            /\ git' = r.g
            /\ IF r.ok
               THEN /\ proc' = [proc EXCEPT ![p] = Goto(p, "merge")]
                    /\ UNCHANGED <<last, statusBarState, locked>>
               ELSE PullFail(p)
            /\ UNCHANGED <<worktree, commits, remote, lfsStore, pendingMerge, modals,
                           refreshPending, OrchVarsOfLfs>>

PullMerge(p) ==
    LET r == merge(git, worktree, commits)
    IN  /\ At(p, "pull", "merge")
        /\ git' = r.g
        /\ worktree' = r.wt
        /\ commits' = r.commits
        /\ IF r.ok
           THEN /\ proc' = [proc EXCEPT ![p] = Goto(p, "smudge")]
                /\ UNCHANGED <<last, statusBarState, locked>>
           ELSE PullFail(p)
        /\ UNCHANGED <<remote, lfsStore, pendingMerge, modals, refreshPending, used,
                       OrchVarsOfLfs>>

PullSmudge(p) ==
    \E fault \in Faults(SmudgeFaults \ {"none"}) :
        LET r == smudgeFiles(worktree, lfsStore, "a.png", fault)
        IN  /\ At(p, "pull", "smudge")
            /\ used' = Spend(fault)
            /\ worktree' = r.wt
            /\ IF r.ok
               THEN /\ End(p, "ok")
                    /\ locked' = FALSE
                    /\ UNCHANGED statusBarState
               ELSE PullFail(p)
            /\ UNCHANGED <<git, commits, remote, lfsStore, pendingMerge, modals,
                           refreshPending, OrchVarsOfLfs>>

-----------------------------------------------------------------------------
(* restore *)

\* a dialog whose Cancel button restores the files all the same
RestoreDeclineRestores(p) ==
    /\ At(p, "restore", "confirm")
    /\ End(p, "declined")
    /\ worktree' = restoreAll(git, worktree).wt
    /\ UNCHANGED <<git, commits, remote, lfsStore, locked, pendingMerge, modals,
                   statusBarState, refreshPending, used, OrchVarsOfLfs>>

\* the confirmation dialog is answered: Cancel
RestoreDecline(p) ==
    /\ At(p, "restore", "confirm")
    /\ End(p, "declined")
    /\ UNCHANGED <<worktree, git, commits, remote, lfsStore, locked, pendingMerge, modals,
                   statusBarState, refreshPending, used, OrchVarsOfLfs>>

\* the confirmation dialog is answered: Yes; the flag is taken
RestoreConfirm(p) ==
    /\ At(p, "restore", "confirm")
    /\ locked' = TRUE
    /\ statusBarState' = "syncing"
    /\ proc' = [proc EXCEPT ![p] = Goto(p, "restore")]
    /\ UNCHANGED <<worktree, git, commits, remote, lfsStore, pendingMerge, modals,
                   refreshPending, last, used, OrchVarsOfLfs>>

\* git restore .
RestoreGit(p) ==
    LET r == restoreAll(git, worktree)
    IN  /\ At(p, "restore", "restore")
        /\ worktree' = r.wt
        /\ IF r.ok
           THEN /\ proc' = [proc EXCEPT ![p] = Goto(p, "smudge")]
                /\ UNCHANGED <<last, statusBarState, locked>>
           ELSE Fail(p)
        /\ UNCHANGED <<git, commits, remote, lfsStore, pendingMerge, modals, refreshPending,
                       used, OrchVarsOfLfs>>

RestoreSmudge(p) ==
    \E fault \in Faults(SmudgeFaults \ {"none"}) :
        LET r == smudgeFiles(worktree, lfsStore, "a.png", fault)
        IN  /\ At(p, "restore", "smudge")
            /\ used' = Spend(fault)
            /\ worktree' = r.wt
            /\ IF r.ok
               THEN /\ End(p, "ok")
                    /\ locked' = FALSE
                    /\ refreshPending' = TRUE
                    /\ UNCHANGED statusBarState
               ELSE /\ Fail(p)
                    /\ UNCHANGED refreshPending
            /\ UNCHANGED <<git, commits, remote, lfsStore, pendingMerge, modals,
                           OrchVarsOfLfs>>

-----------------------------------------------------------------------------
(* resolveMerge, started by the modal's Resolve button *)

Resolutions == {"ours", "theirs", "both"}

\* the catch block of resolveMerge and of cancelMerge: the flag is not touched
CallbackFail(p) ==
    /\ End(p, "failed")
    /\ statusBarState' = "error"

\* a Resolve button that is never disabled
allResolvedAlways(conflicts, resolutions) == TRUE

\* MergeModal: conflicts.every(f => resolutions[f])
allResolved(conflicts, resolutions) ==
    \A f \in conflicts : resolutions[f] # "unset"

\* the Resolve button: handleResolve calls onResolve only if allResolved
ClickResolve ==
    \E m \in DOMAIN modals, p \in Slots, res \in [Files -> Resolutions \cup {"unset"}] :
        /\ used.calls < MaxCalls
        /\ used' = [used EXCEPT !.calls = @ + 1]
        /\ FreeSlot(p)
        /\ \A f \in Files \ modals[m].conflicts : res[f] = "unset"
        /\ allResolved(modals[m].conflicts, res)
        /\ proc' = [proc EXCEPT ![p] =
              [Idle EXCEPT !.op = "resolve", !.pc = "apply", !.modal = m,
                           !.files = SetToSeq(modals[m].conflicts), !.resolutions = res]]
        /\ statusBarState' = "syncing"
        /\ UNCHANGED <<worktree, git, commits, remote, lfsStore, locked, pendingMerge,
                       modals, refreshPending, last, OrchVarsOfLfs>>

\* checkout --ours / --theirs of the next path; for any other resolution the
\* file is read, to be written back without its conflict markers
ResolveApply(p) ==
    LET me == proc[p]
        file == Head(me.files)
        resolution == me.resolutions[file]
        r == checkoutSide(git, worktree, file, resolution)
    IN  /\ At(p, "resolve", "apply")
        /\ IF resolution \in {"ours", "theirs"}
           THEN /\ worktree' = r.wt
                /\ IF r.ok
                   THEN /\ proc' = [proc EXCEPT ![p] = Goto(p, "addFile")]
                        /\ UNCHANGED <<last, statusBarState>>
                   ELSE CallbackFail(p)
           ELSE /\ UNCHANGED worktree
                /\ IF worktree[file] # Absent
                   THEN /\ proc' = [proc EXCEPT ![p] =
                              [@ EXCEPT !.pc = "write", !.content = worktree[file]]]
                        /\ UNCHANGED <<last, statusBarState>>
                   ELSE CallbackFail(p)
        /\ UNCHANGED <<git, commits, remote, lfsStore, locked, pendingMerge, modals,
                       refreshPending, used, OrchVarsOfLfs>>

\* adapter.write(file, stripConflictMarkers(content)) of the content read
ResolveWrite(p) ==
    LET me == proc[p]
        file == Head(me.files)
    IN  /\ At(p, "resolve", "write")
        /\ worktree' = [worktree EXCEPT ![file] = stripConflictMarkers(me.content)]
        /\ proc' = [proc EXCEPT ![p] = [@ EXCEPT !.pc = "addFile", !.content = <<>>]]
        /\ UNCHANGED <<git, commits, remote, lfsStore, locked, pendingMerge, modals,
                       statusBarState, refreshPending, last, used, OrchVarsOfLfs>>

\* git add <file>
ResolveAdd(p) ==
    LET me == proc[p]
    IN  /\ At(p, "resolve", "addFile")
        /\ git' = add(git, worktree, Head(me.files))
        /\ proc' = [proc EXCEPT ![p] =
              [@ EXCEPT !.files = Tail(@),
                        !.pc = IF Tail(me.files) = <<>> THEN "commit" ELSE "apply"]]
        /\ UNCHANGED <<worktree, commits, remote, lfsStore, locked, pendingMerge, modals,
                       statusBarState, refreshPending, last, used, OrchVarsOfLfs>>

\* git commit "resolve merge conflicts"; pendingMerge is cleared and the
\* pending modal closed
ResolveCommit(p) ==
    LET r == commit(git, commits)
    IN  /\ At(p, "resolve", "commit")
        /\ git' = r.g
        /\ commits' = r.commits
        /\ IF r.ok
           THEN /\ pendingMerge' = NoMerge
                /\ modals' = [m \in DOMAIN modals \ {pendingMerge.modal} |-> modals[m]]
                /\ proc' = [proc EXCEPT ![p] = Goto(p, "smudge")]
                /\ UNCHANGED <<last, statusBarState>>
           ELSE /\ CallbackFail(p)
                /\ UNCHANGED <<pendingMerge, modals>>
        /\ UNCHANGED <<worktree, remote, lfsStore, locked, refreshPending, used,
                       OrchVarsOfLfs>>

ResolveSmudge(p) ==
    \E fault \in Faults(SmudgeFaults \ {"none"}) :
        LET r == smudgeFiles(worktree, lfsStore, "a.png", fault)
        IN  /\ At(p, "resolve", "smudge")
            /\ used' = Spend(fault)
            /\ worktree' = r.wt
            /\ IF r.ok
               THEN /\ proc' = [proc EXCEPT ![p] =
                          [@ EXCEPT !.pc = "mirror", !.todo = GitDirEntries, !.wrote = FALSE]]
                    /\ statusBarState' = "syncing"
                    /\ UNCHANGED last
               ELSE CallbackFail(p)
            /\ UNCHANGED <<git, commits, remote, lfsStore, locked, pendingMerge, modals,
                           refreshPending, OrchVarsOfLfs>>

-----------------------------------------------------------------------------
(* cancelMerge, started when the pending modal is closed *)

\* the modal is closed (Cancel button or dismissal): onClose runs cancelMerge
\* when this modal is the pending one
CloseModal ==
    \E m \in DOMAIN modals :
        /\ modals' = [x \in DOMAIN modals \ {m} |-> modals[x]]
        /\ IF pendingMerge.modal = m
           THEN /\ \E p \in Slots :
                      /\ FreeSlot(p)
                      /\ proc' = [proc EXCEPT ![p] =
                            [Idle EXCEPT !.op = "cancel", !.pc = "abort", !.modal = m,
                                         !.preHead = modals[m].preHead,
                                         !.preTree = modals[m].preTree]]
                /\ pendingMerge' = NoMerge
                /\ statusBarState' = "syncing"
           ELSE UNCHANGED <<proc, pendingMerge, statusBarState>>
        /\ UNCHANGED <<worktree, git, commits, remote, lfsStore, locked, refreshPending,
                       last, used, OrchVarsOfLfs>>

\* git merge --abort
CancelAbort(p) ==
    LET r == mergeAbort(git, worktree)
    IN  /\ At(p, "cancel", "abort")
        /\ git' = r.g
        /\ worktree' = r.wt
        /\ IF r.ok
           THEN /\ proc' = [proc EXCEPT ![p] = Goto(p, "reset")]
                /\ UNCHANGED <<last, statusBarState>>
           ELSE CallbackFail(p)
        /\ UNCHANGED <<commits, remote, lfsStore, locked, pendingMerge, modals,
                       refreshPending, used, OrchVarsOfLfs>>

\* git reset --hard preHead
CancelReset(p) ==
    LET r == resetHard(git, worktree, proc[p].preHead)
    IN  /\ At(p, "cancel", "reset")
        /\ git' = r.g
        /\ worktree' = r.wt
        /\ proc' = [proc EXCEPT ![p] = Goto(p, "smudge")]
        /\ UNCHANGED <<commits, remote, lfsStore, locked, pendingMerge, modals,
                       statusBarState, refreshPending, last, used, OrchVarsOfLfs>>

CancelSmudge(p) ==
    \E fault \in Faults(SmudgeFaults \ {"none"}) :
        LET r == smudgeFiles(worktree, lfsStore, "a.png", fault)
        IN  /\ At(p, "cancel", "smudge")
            /\ used' = Spend(fault)
            /\ worktree' = r.wt
            /\ IF r.ok
               THEN /\ End(p, "ok")
                    /\ statusBarState' = "changes"
               ELSE CallbackFail(p)
            /\ UNCHANGED <<git, commits, remote, lfsStore, locked, pendingMerge, modals,
                           refreshPending, OrchVarsOfLfs>>

-----------------------------------------------------------------------------

vars == <<worktree, git, commits, remote, lfsStore, locked, pendingMerge, modals,
          statusBarState, refreshPending, proc, last, used, lfsPc, lfsOrig, lfsCleans,
          conn, strip, ptr, s3run>>

Next ==
    \/ UserEdit
    \/ OtherClientPush
    \/ RefreshStatus
    \/ CallPush
    \/ CallPull
    \/ CallRestore
    \/ ClickResolve
    \/ CloseModal
    \/ \E p \in Slots :
        \/ PushStatus(p)
        \/ PushRemoteHead(p)
        \/ PushClean(p)
        \/ PushAddAll(p)
        \/ PushCommit(p)
        \/ PushRev(p)
        \/ PullAndMergeRev(p)
        \/ PullAndMergeFetch(p)
        \/ PullAndMergeMerge(p)
        \/ PullAndMergeConflicts(p)
        \/ copyDirToS3(p)
        \/ PullQuery(p)
        \/ PullFetch(p)
        \/ PullMerge(p)
        \/ PullSmudge(p)
        \/ RestoreDecline(p)
        \/ RestoreConfirm(p)
        \/ RestoreGit(p)
        \/ RestoreSmudge(p)
        \/ ResolveApply(p)
        \/ ResolveWrite(p)
        \/ ResolveAdd(p)
        \/ ResolveCommit(p)
        \/ ResolveSmudge(p)
        \/ CancelAbort(p)
        \/ CancelReset(p)
        \/ CancelSmudge(p)

Spec == Init /\ [][Next]_vars

\* the same program on a repository whose branch is main or master
SpecBranch == BranchInit /\ [][Next]_vars

-----------------------------------------------------------------------------
(* connect, followed by pushes *)

\* configured is isConfigured(); s3 says that s3fs and s3lfs are not null
NotConnected ==
    [pc |-> "idle", git |-> FALSE, localGit |-> FALSE, branch |-> "none",
     hadLocal |-> FALSE, hadRemote |-> FALSE, probeFailed |-> FALSE, doneAt |-> 0,
     configured |-> TRUE, s3 |-> TRUE, headRef |-> "main"]

\* a directory without .git
NoRepo ==
    [HEAD |-> 0, index |-> [f \in Files |-> Absent], unmerged |-> {}, MERGE_HEAD |-> 0,
     FETCH_HEAD |-> 0, objects |-> {}]

\* the vault is an empty directory or holds a repository with one commit; the
\* remote is empty or holds the mirror of a repository with that commit; the
\* commit may hold a.png as a pointer, its content being in the object store;
\* onload has created the store clients if and only if the settings were complete
ConnInit ==
    /\ \E hasLocalGit \in BOOLEAN, offloaded \in BOOLEAN, atLoad \in BOOLEAN :
          LET content == LocalContent("a.png", 0)
              tree == IF offloaded
                      THEN [Tree0 EXCEPT !["a.png"] =
                                formatPointer(Sha256(content), Size(content))]
                      ELSE Tree0
          IN  /\ commits = <<NewCommit(tree, {})>>
              /\ conn = [NotConnected EXCEPT !.localGit = hasLocalGit,
                                             !.configured = atLoad, !.s3 = atLoad]
              /\ worktree = IF hasLocalGit THEN tree ELSE [f \in Files |-> Absent]
              /\ git = IF hasLocalGit
                       THEN [NoRepo EXCEPT !.HEAD = 1, !.index = tree, !.objects = {1}]
                       ELSE NoRepo
              /\ lfsStore = IF offloaded
                            THEN S3Put(EmptyStore, key(Sha256(content)), content)
                            ELSE EmptyStore
    /\ remote \in {[refs |-> 1, objects |-> {1}], [refs |-> 0, objects |-> {}]}
    /\ lfsStore # EmptyStore => (~conn.localGit /\ remote.refs = 1)
    /\ locked = FALSE
    /\ pendingMerge = NoMerge
    /\ modals = NoModals
    /\ statusBarState = "disconnected"
    /\ refreshPending = FALSE
    /\ proc = [p \in Slots |-> Idle]
    /\ last = [op |-> "none", res |-> "none"]
    /\ used = [calls |-> 0, edits |-> 0, remotes |-> 0, faults |-> 0, modals |-> 0]
    /\ lfsPc = <<>>
    /\ lfsOrig = <<>>
    /\ lfsCleans = 0
    /\ strip = NoStrip
    /\ ptr = NoPtr
    /\ s3run = NoS3

ConnOther == <<commits, lfsStore, locked, pendingMerge, modals, proc, last,
               lfsPc, lfsOrig, lfsCleans, strip, ptr, s3run>>

\* S3.head returns null on every error, S3FS.stat then lists, and S3FS.exists
\* turns every exception into false
exists(rem, fault) == IF fault = "s3" THEN FALSE ELSE rem.refs # 0

\* the user fills in the settings tab: only plugin.settings changes
EnterSettings ==
    /\ conn.pc = "idle"
    /\ ~conn.configured
    /\ conn' = [conn EXCEPT !.configured = TRUE]
    /\ UNCHANGED <<worktree, git, remote, statusBarState, refreshPending, used, ConnOther>>

\* connect is invoked: this.git = new Git(...); with incomplete settings it
\* only shows a notice
ConnectCall ==
    /\ conn.pc = "idle"
    /\ conn.configured
    /\ conn' = [conn EXCEPT !.pc = "probe", !.git = TRUE]
    /\ UNCHANGED <<worktree, git, remote, statusBarState, refreshPending, used, ConnOther>>

\* the catch block of connect
ConnectFail ==
    /\ conn' = [conn EXCEPT !.pc = "failed"]
    /\ statusBarState' = "error"

\* await adapter.exists(".git"); await s3fs.exists(".git/HEAD"); the branch
ConnectProbe ==
    \E fault \in Faults({"s3"}) :
        LET hasLocalGit == conn.localGit
            hasRemoteGit == exists(remote, fault)
            branch == IF ~hasLocalGit /\ hasRemoteGit THEN "pull"
                      ELSE IF ~hasLocalGit THEN "init" ELSE "connected"
        IN  /\ conn.pc = "probe"
            /\ used' = Spend(fault)
            /\ IF ~conn.s3
               THEN \* this.s3fs!.exists on null throws a TypeError
                    ConnectFail
               ELSE /\ conn' = [conn EXCEPT
                                   !.pc = IF branch = "pull" THEN "copyDown"
                                          ELSE IF branch = "init" THEN "init" ELSE "attrs",
                                   !.branch = branch,
                                   !.hadLocal = hasLocalGit,
                                   !.hadRemote = remote.refs # 0,
                                   !.probeFailed = fault = "s3"]
                    /\ statusBarState' = IF branch = "connected" THEN statusBarState
                                         ELSE "syncing"
            /\ UNCHANGED <<worktree, git, remote, refreshPending, ConnOther>>

\* await copyDirFromS3(".git"); await configureGit()
ConnectCopyDown ==
    \E fault \in Faults({"s3"}) :
        /\ conn.pc = "copyDown"
        /\ used' = Spend(fault)
        /\ IF fault = "s3"
           THEN /\ ConnectFail
                /\ UNCHANGED git
           ELSE /\ git' = [NoRepo EXCEPT !.HEAD = remote.refs,
                                         !.index = Tree(remote.refs),
                                         !.objects = remote.objects]
                /\ conn' = [conn EXCEPT !.pc = "checkout", !.localGit = TRUE]
                /\ UNCHANGED statusBarState
        /\ UNCHANGED <<worktree, remote, refreshPending, ConnOther>>

\* await git.checkout(".")
ConnectCheckout ==
    LET r == restoreAll(git, worktree)
    IN  /\ conn.pc = "checkout"
        /\ worktree' = r.wt
        /\ IF r.ok
           THEN /\ conn' = [conn EXCEPT !.pc = "smudge"]
                /\ UNCHANGED statusBarState
           ELSE ConnectFail
        /\ UNCHANGED <<git, remote, refreshPending, used, ConnOther>>

\* await s3lfs.smudgeFiles(vaultPath, patterns)
ConnectSmudge ==
    \E fault \in Faults(SmudgeFaults \ {"none"}) :
        LET r == smudgeFiles(worktree, lfsStore, "a.png", fault)
        IN  /\ conn.pc = "smudge"
            /\ used' = Spend(fault)
            /\ worktree' = r.wt
            /\ IF r.ok
               THEN /\ conn' = [conn EXCEPT !.pc = "attrs"]
                    /\ UNCHANGED statusBarState
               ELSE ConnectFail
            /\ UNCHANGED <<git, remote, refreshPending, ConnOther>>

\* await git.init(); await configureGit(); write .gitignore
ConnectInit ==
    /\ conn.pc = "init"
    /\ git' = NoRepo
    /\ conn' = [conn EXCEPT !.pc = "attrs", !.localGit = TRUE]
    /\ UNCHANGED <<worktree, remote, statusBarState, refreshPending, used, ConnOther>>

\* await ensureGitAttributes(); refreshStatus()
ConnectAttrs ==
    /\ conn.pc = "attrs"
    /\ conn' = [conn EXCEPT !.pc = "done", !.doneAt = used.calls]
    /\ refreshPending' = TRUE
    /\ UNCHANGED <<worktree, git, remote, statusBarState, used, ConnOther>>

ConnNext ==
    \/ EnterSettings
    \/ ConnectCall
    \/ ConnectProbe
    \/ ConnectCopyDown
    \/ ConnectCheckout
    \/ ConnectSmudge
    \/ ConnectInit
    \/ ConnectAttrs
    \/ UserEdit
    \/ CallPush
    \/ \E p \in Slots :
        \/ PushStatus(p)
        \/ PushRemoteHead(p)
        \/ PushClean(p)
        \/ PushAddAll(p)
        \/ PushCommit(p)
        \/ PushRev(p)
        \/ copyDirToS3(p)

SpecConnect == ConnInit /\ [][ConnNext]_vars

-----------------------------------------------------------------------------
(* Properties of the orchestrator *)

MainOps == {"push", "pull", "restore"}

\* the invocation in slot p is inside the try block of push, pull or restore
InTry(p) ==
    /\ proc[p].op \in MainOps
    /\ proc[p].pc \notin {"status", "remoteHead", "query", "confirm"}

\* the invocation in slot p is about to upload the first entry of .git
MirrorStarts(p) == proc[p].pc = "mirror" /\ proc[p].todo = GitDirEntries

\* the invocation in slot p ends in this step
Ends(p) == proc[p].pc # "idle" /\ proc'[p].pc = "idle"

\* C1: Push, Pull and Restore exclude one another -- at most one of them is
\* past taking the busy flag at any time.
MutualExclusion == Cardinality({p \in Slots : InTry(p)}) <= 1

\* C2: mirror-up never starts while the local repository has unmerged paths.
NoMirrorDuringConflict ==
    \A p \in Slots : MirrorStarts(p) => git.unmerged = {}

\* C3: when Push starts mirroring up, the remote tip that existed when Push
\* read the remote head pointer is the local tip or one of its ancestors,
\* whatever the outcome of that read.
MirrorUpIsFastForward ==
    \A p \in Slots :
        (proc[p].op = "push" /\ MirrorStarts(p)) =>
            (proc[p].remoteSeen = 0 \/ IsAncestor(proc[p].remoteSeen, git.HEAD))

CancelRestoresTip ==
    [][\A p \in Slots :
          (proc[p].op = "cancel" /\ Ends(p)) =>
              /\ git'.HEAD = proc[p].preHead
              /\ git'.MERGE_HEAD = 0
              /\ git'.unmerged = {}
              /\ pendingMerge' = NoMerge]_vars

\* C6: when cancelMerge ends with "Merge cancelled", every file of the
\* working tree has the content it had just before the merge attempt.
CancelRestoresTree ==
    [][\A p \in Slots :
          (proc[p].op = "cancel" /\ Ends(p) /\ last'.res = "ok") =>
              worktree' = proc[p].preTree]_vars

\* C7: whenever no Push, Pull or Restore is inside its try block, the busy
\* flag is false -- every path out of the three operations releases it.
FlagReleased == (\A p \in Slots : ~InTry(p)) => ~locked

FlagReleasedWitness ==
    /\ last.op \in MainOps
    /\ last.res = "failed"
    /\ \A p \in Slots : proc[p].pc = "idle"
    /\ ~locked

\* C8: a Push, Pull or Restore that ends after a failure leaves the status
\* surface in the error phase.
FailureShowsError ==
    [][\A p \in Slots :
          (proc[p].op \in MainOps /\ Ends(p) /\ last'.res \in {"failed", "unhandled"}) =>
              statusBarState' = "error"]_vars

\* C9: a mirror-up that fails has changed nothing in the remote copy of .git.
MirrorUpAllOrNothing ==
    [][\A p \in Slots :
          (proc[p].pc = "mirror" /\ Ends(p) /\ last'.res = "failed") =>
              ~proc[p].wrote]_vars

\* C11: the offload step never uploads a pointer record: no object in the
\* store is itself a pointer record (a pointer to a pointer is never made).
NoPointerUploaded ==
    \A k \in DOMAIN lfsStore : ~StartsWithVersion(lfsStore[k])

\* C12: in every commit Push makes, each file that matches a tracked pattern
\* and differs from the parent commit is a pointer record (or is deleted).
PushCommitsPointers ==
    [][\A p \in Slots :
          (At(p, "push", "commit") /\ proc'[p].pc = "rev") =>
              \A f \in getLfsPatterns :
                  LET t == commits'[git'.HEAD].tree[f]
                  IN  \/ t = Absent
                      \/ t = Tree(git.HEAD)[f]
                      \/ parsePointer(t) # NoPointer]_vars

\* C13: a Push whose status is clean and whose local tip is the remote tip it
\* read stops with "up to date", and it stops there in no other case; the
\* step that stops takes no flag and changes nothing locally or remotely.
UpToDateChangesNothing ==
    [][\A p \in Slots :
          (At(p, "push", "remoteHead") /\ proc'[p] # proc[p]) =>
              LET stopped == proc'[p].pc = "idle"
              IN  /\ (~proc[p].hasChanges /\ ~stopped) =>
                         proc'[p].remoteHead # proc[p].localHead
                  /\ stopped =>
                         /\ last' = [op |-> "push", res |-> "uptodate"]
                         /\ ~proc[p].hasChanges
                         /\ proc[p].localHead = remote.refs
                         /\ UNCHANGED <<worktree, git, commits, remote, lfsStore, locked,
                                        pendingMerge, modals, statusBarState>>]_vars

UpToDateWitness ==
    /\ last = [op |-> "push", res |-> "uptodate"]
    /\ \A p \in Slots : proc[p].pc = "idle"
    /\ ~locked
    /\ remote.refs = git.HEAD
    /\ used.calls = 1

\* C14: starting from an empty directory and an empty remote, a Push issued
\* after Connect has initialised the repository, with no user change, ends
\* with "up to date" and leaves the remote as it was.
FreshPushUpToDate ==
    [][\A p \in Slots :
          (/\ proc[p].op = "push" /\ Ends(p)
           /\ conn.pc = "done" /\ conn.branch = "init" /\ conn.doneAt = 0
           /\ ~conn.hadRemote /\ used.calls = 1 /\ used.edits = 0 /\ used'.faults = 0) =>
              (last'.res = "uptodate" /\ remote' = remote)]_vars

\* C15: Connect initialises a repository only when neither history exists,
\* mirrors the remote down only when the remote history exists and the local
\* one does not, leaves an existing local history alone, and takes neither
\* the initialise nor the mirror-down branch after a probe that failed.
ConnectBranchIsActual ==
    /\ conn.branch = "init" => (~conn.hadLocal /\ ~conn.hadRemote /\ ~conn.probeFailed)
    /\ conn.branch = "pull" => (~conn.hadLocal /\ conn.hadRemote /\ ~conn.probeFailed)
    /\ conn.branch = "connected" => conn.hadLocal
    /\ (conn.hadLocal /\ conn.pc # "idle") => (git.HEAD = 1 /\ git.objects = {1})

\* C16: the step in which a Restore ends at its confirmation dialog (the user
\* declined) runs no git command, restores no file, takes no flag: working
\* tree, repository, commit objects, remote, object store, flag and status
\* surface are unchanged.
DeclinedRestoreChangesNothing ==
    [][\A p \in Slots :
          (At(p, "restore", "confirm") /\ Ends(p)) =>
              /\ last' = [op |-> "restore", res |-> "declined"]
              /\ UNCHANGED <<worktree, git, commits, remote, lfsStore, locked,
                             pendingMerge, modals, statusBarState>>]_vars

DeclinedRestoreWitness ==
    /\ last = [op |-> "restore", res |-> "declined"]
    /\ used.calls = 1
    /\ worktree # Tree(git.HEAD)
    /\ worktree["n.md"] # git.index["n.md"]
    /\ ~locked

\* the content a file has when the tree of commit c is checked out and its
\* pointer records are replaced by the objects they name
Restored(c, f) ==
    LET t == Tree(c)[f]
    IN  IF t # Absent /\ parsePointer(t) # NoPointer /\ key(parsePointer(t).oid) \in DOMAIN lfsStore
        THEN lfsStore[key(parsePointer(t).oid)]
        ELSE t

\* C17: when a confirmed Restore ends successfully, every file of the working
\* tree is as in the checked-out tree, offloaded files holding their real
\* content: no modified, deleted, staged or untracked change is left.
RestoreDiscardsAll ==
    [][\A p \in Slots :
          (proc[p].op = "restore" /\ Ends(p) /\ last'.res = "ok") =>
              \A f \in Files : worktree'[f] = Restored(git'.HEAD, f)]_vars

\* C20: every step of a resolveMerge invocation.  The submitted resolutions
\* cover every conflicting path; unless the step fails, the invocation
\* applies the resolution of the next path, stages that path, and after the
\* last path makes one commit, restores the offloaded files and uploads each
\* entry of .git once; it never offloads, fetches or compares tips.
ResolveResumesPush ==
    [][\A p \in Slots :
          (proc[p].op = "resolve" /\ proc'[p] # proc[p]) =>
              LET a == proc[p].pc
                  b == proc'[p].pc
                  file == Head(proc[p].files)
              IN  /\ \A i \in DOMAIN proc[p].files :
                        proc[p].resolutions[proc[p].files[i]] \in Resolutions
                  /\ lfsStore' = lfsStore
                  /\ git'.FETCH_HEAD = git.FETCH_HEAD
                  /\ \/ b = "idle" /\ last' = [op |-> "resolve", res |-> "failed"]
                     \/ /\ a = "apply" /\ b = "addFile"
                        /\ proc[p].resolutions[file] # "both"
                        /\ worktree' = checkoutSide(git, worktree, file,
                                                   proc[p].resolutions[file]).wt
                        /\ UNCHANGED <<git, commits, remote>>
                     \/ /\ a = "apply" /\ b = "write"
                        /\ proc[p].resolutions[file] = "both"
                        /\ proc'[p].content = worktree[file]
                        /\ UNCHANGED <<worktree, git, commits, remote>>
                     \/ /\ a = "write" /\ b = "addFile"
                        /\ worktree'[file] = stripConflictMarkers(proc[p].content)
                        /\ UNCHANGED <<git, commits, remote>>
                     \/ /\ a = "addFile" /\ b = (IF Len(proc[p].files) = 1 THEN "commit" ELSE "apply")
                        /\ git'.index[file] = worktree[file]
                        /\ file \notin git'.unmerged
                        /\ UNCHANGED <<worktree, commits, remote>>
                     \/ /\ a = "commit" /\ b = "smudge"
                        /\ Len(commits') = Len(commits) + 1
                        /\ git'.HEAD = Len(commits')
                        /\ commits'[git'.HEAD].tree = git.index
                        /\ pendingMerge' = NoMerge
                        /\ UNCHANGED <<worktree, remote>>
                     \/ /\ a = "smudge" /\ b = "mirror"
                        /\ proc'[p].todo = GitDirEntries
                        /\ UNCHANGED <<git, commits, remote>>
                     \/ /\ a = "mirror" /\ b = "mirror"
                        /\ \E e \in proc[p].todo : proc'[p].todo = proc[p].todo \ {e}
                        /\ UNCHANGED <<worktree, git, commits>>
                     \/ /\ a = "mirror" /\ b = "idle"
                        /\ Cardinality(proc[p].todo) = 1
                        /\ last' = [op |-> "resolve", res |-> "ok"]
                        /\ UNCHANGED <<worktree, git, commits>>]_vars

ResolveResumesPushWitness ==
    /\ last = [op |-> "resolve", res |-> "ok"]
    /\ \A p \in Slots : proc[p].pc = "idle"
    /\ Cardinality(commits[git.HEAD].parent) = 2
    /\ remote.refs = git.HEAD
    /\ git.objects \subseteq remote.objects
    /\ pendingMerge = NoMerge
    /\ git.unmerged = {}


\* C21: every step of an invocation that changes the working tree, the
\* repository or the commits is taken while the busy flag is set, and a
\* Push, Pull or Restore called while a merge is pending or a resolution is
\* being applied or cancelled starts nothing.
SingleWriter ==
    [][/\ \A p \in Slots :
             (/\ proc[p].op # "none"
              /\ proc'[p] # proc[p]
              /\ <<worktree, git, commits>>' # <<worktree, git, commits>>) => locked
       /\ \A p \in Slots :
             (/\ proc[p].op = "none"
              /\ proc'[p].op \in MainOps
              /\ \/ pendingMerge # NoMerge
                 \/ \E q \in Slots : proc[q].op \in {"resolve", "cancel"}) => FALSE]_vars


\* C29: when a mirror-up ends successfully the remote copy of .git equals
\* the local one: the same tip and exactly the local object files, none more.
MirrorIsExact ==
    [][\A p \in Slots :
          (/\ proc[p].pc = "mirror"
           /\ Ends(p)
           /\ last' = [op |-> proc[p].op, res |-> "ok"]) =>
              /\ remote'.refs = git.HEAD
              /\ remote'.objects = git.objects]_vars


\* C30: the pending-merge state is set only while the local repository has
\* a merge in progress that is not yet committed.
PendingMergeLifetime ==
    pendingMerge # NoMerge => git.MERGE_HEAD # 0


\* C31: the four path sets of Git.status -- staged, modified, untracked,
\* deleted -- are pairwise disjoint.
StatusSetsDisjoint ==
    LET s == status(git, worktree)
    IN  /\ s.staged \cap s.modified = {}
        /\ s.staged \cap s.untracked = {}
        /\ s.staged \cap s.deleted = {}
        /\ s.modified \cap s.untracked = {}
        /\ s.modified \cap s.deleted = {}
        /\ s.untracked \cap s.deleted = {}


\* C34: when a Push reports success, directly or through resolveMerge, the
\* tip the remote head pointer resolves to is the local tip.
SuccessMeansTipsEqual ==
    [][\A p \in Slots :
          (/\ proc[p].op \in {"push", "resolve"}
           /\ Ends(p)
           /\ last' = [op |-> proc[p].op, res |-> "ok"]) =>
              getRemoteHead(remote', "none") = git'.HEAD]_vars


\* C35: a Pull whose merge fails leaves the local tip where it was and, if no
\* merge was in progress before, leaves none in progress, no unmerged path
\* and the working tree unchanged (no conflict markers written).
FailedPullLeavesNoMerge ==
    [][\A p \in Slots :
          (/\ proc[p].op = "pull" /\ proc[p].pc = "merge"
           /\ Ends(p)
           /\ last' = [op |-> "pull", res |-> "failed"]) =>
              /\ git'.HEAD = git.HEAD
              /\ git.MERGE_HEAD = 0 =>
                    /\ git'.MERGE_HEAD = 0
                    /\ git'.unmerged = {}
                    /\ worktree' = worktree]_vars


\* C36: for one suspended merge the resolution's commit and the cancel's
\* abort and reset never both take effect: resolveMerge does not commit once
\* cancelMerge has aborted the merge, and cancelMerge does not abort or reset
\* once resolveMerge has committed.
ResolveXorCancel ==
    [][\A p \in Slots :
          /\ (/\ proc[p].op = "resolve" /\ proc[p].pc = "commit"
              /\ proc'[p].pc = "smudge") =>
                 /\ git.MERGE_HEAD # 0
                 /\ ~\E q \in Slots : /\ proc[q].op = "cancel"
                                      /\ proc[q].modal = proc[p].modal
                                      /\ proc[q].pc \in {"reset", "smudge"}
          /\ (/\ proc[p].op = "cancel" /\ proc[p].pc \in {"abort", "reset"}
              /\ proc'[p].pc \in {"reset", "smudge"}
              /\ proc'[p].pc # proc[p].pc) =>
                 ~\E q \in Slots : /\ proc[q].op = "resolve"
                                   /\ proc[q].modal = proc[p].modal
                                   /\ proc[q].pc \in {"smudge", "mirror"}]_vars


\* C37: a Push called right after a connect that pulled from the remote and
\* restored an offloaded file, with no user edit in between, creates no
\* commit, uploads nothing and ends reporting up to date (no call failing).
PushAfterRestoreIsQuiet ==
    [][\A p \in Slots :
          (/\ proc[p].op = "push" /\ proc'[p] # proc[p]
           /\ conn.pc = "done" /\ conn.branch = "pull" /\ conn.doneAt = 0
           /\ used.calls = 1 /\ used.edits = 0 /\ used'.faults = 0
           /\ StartsWithVersion(Tree(git.HEAD)["a.png"])) =>
              /\ commits' = commits
              /\ proc'[p].pc # "clean"
              /\ Ends(p) => last' = [op |-> "push", res |-> "uptodate"]]_vars


\* C38: a connect invoked with complete settings, whether they were complete
\* at load or entered afterwards, fails only if a store or git call failed,
\* and once it has ended with an outcome no Push reports "Not connected".
ConnectWithSettingsConnects ==
    /\ [](conn.pc = "failed" => used.faults > 0)
    /\ [][(/\ used'.calls # used.calls
           /\ conn.pc = "done") => ~(proc' = proc /\ last'.res = "notconnected")]_vars


\* C39: whatever the branch of the repository is called, a fetch by Pull or by
\* Push's fetch-and-merge on which no call fails brings in the commit that is
\* the remote tip (the one getRemoteHead reads) and the run goes on to merge it.
FetchBringsRemoteTip ==
    [][\A p \in Slots :
          (/\ proc[p].pc = "fetch" /\ proc'[p] # proc[p]
           /\ used'.faults = used.faults
           /\ getRemoteHead(remote, "none") # 0
           /\ Anc(remote.refs) \subseteq remote.objects) =>
              /\ git'.FETCH_HEAD = getRemoteHead(remote, "none")
              /\ proc'[p].pc = "merge"]_vars


\* C40: no update is lost between two clients: whenever the remote tip is
\* replaced, by this client's mirror-up or by the other client's push, the
\* tip it replaces is an ancestor of the new tip (no call having failed).
NoLostUpdate ==
    [][(/\ remote'.refs # remote.refs
        /\ remote.refs # 0
        /\ used'.faults = 0) =>
           \E old \in {remote.refs} : (old \in Anc(remote.refs))']_vars

-----------------------------------------------------------------------------
(* The offload engine on its own: clean and smudge runs over two files *)

LfsFiles == {"a.png", "b.png"}

LfsLines == {Txt(1), Txt(2), VersionLine, OidLine(<<Txt(1)>>), SizeLine(1)}

RECURSIVE SeqsUpTo(_, _)
SeqsUpTo(S, n) ==
    IF n = 0 THEN {<<>>}
    ELSE LET shorter == SeqsUpTo(S, n - 1)
         IN  shorter \cup {Append(s, x) : s \in shorter, x \in S}

LfsInit ==
    /\ \E a \in SeqsUpTo(LfsLines, MaxLen), b \in SeqsUpTo(LfsLines, 1) :
          worktree = [f \in LfsFiles |-> IF f = "a.png" THEN a ELSE b]
    /\ lfsStore = EmptyStore
    /\ commits = <<NewCommit(Tree0, {})>>
    /\ git = [HEAD |-> 1, index |-> Tree0, unmerged |-> {}, MERGE_HEAD |-> 0,
              FETCH_HEAD |-> 0, objects |-> {1}]
    /\ remote = [refs |-> 0, objects |-> {}]
    /\ locked = FALSE
    /\ pendingMerge = NoMerge
    /\ modals = NoModals
    /\ statusBarState = "disconnected"
    /\ refreshPending = FALSE
    /\ proc = [p \in Slots |-> Idle]
    /\ last = [op |-> "none", res |-> "none"]
    /\ used = [calls |-> 0, edits |-> 0, remotes |-> 0, faults |-> 0, modals |-> 0]
    /\ lfsPc = [f \in LfsFiles |-> "plain"]
    /\ lfsOrig = [f \in LfsFiles |-> Absent]
    /\ lfsCleans = 0
    /\ conn = Connected
    /\ strip = NoStrip
    /\ ptr = NoPtr
    /\ s3run = NoS3

LfsClean(f) ==
    \E fault \in CleanFaults :
        LET r == clean(worktree, lfsStore, f, fault)
        IN  /\ lfsCleans < MaxCleans
            /\ lfsCleans' = lfsCleans + 1
            /\ worktree' = r.wt
            /\ lfsStore' = r.store
            /\ lfsPc' = [lfsPc EXCEPT ![f] = IF r.ok THEN "cleaned" ELSE "plain"]
            /\ lfsOrig' = [lfsOrig EXCEPT ![f] = IF r.ok THEN worktree[f] ELSE Absent]

LfsSmudge(f) ==
    \E fault \in SmudgeFaults :
        LET r == smudge(worktree, lfsStore, f, fault)
        IN  /\ worktree' = r.wt
            /\ lfsPc' = [lfsPc EXCEPT ![f] =
                            IF r.ok /\ lfsPc[f] = "cleaned" THEN "smudged" ELSE "plain"]
            /\ lfsOrig' = [lfsOrig EXCEPT ![f] =
                            IF r.ok /\ lfsPc[f] = "cleaned" THEN @ ELSE Absent]
            /\ UNCHANGED <<lfsStore, lfsCleans>>

LfsOther == <<git, commits, remote, locked, pendingMerge, modals, statusBarState,
              refreshPending, proc, last, used, conn, strip, ptr, s3run>>

LfsNext ==
    \/ \E f \in LfsFiles : LfsClean(f) /\ UNCHANGED LfsOther
    \/ \E f \in LfsFiles : LfsSmudge(f) /\ UNCHANGED LfsOther

SpecLfs == LfsInit /\ [][LfsNext]_vars

\* C10: round trip -- a successful clean of a file followed by a successful
\* smudge of that file leaves the file with exactly the content clean read,
\* also when that content itself begins with the pointer version token.
RoundTrip ==
    \A f \in LfsFiles : lfsPc[f] = "smudged" => worktree[f] = lfsOrig[f]

RoundTripWitness ==
    /\ lfsPc["a.png"] = "smudged"
    /\ StartsWithVersion(lfsOrig["a.png"])
    /\ parsePointer(lfsOrig["a.png"]) # NoPointer
    /\ worktree["a.png"] = lfsOrig["a.png"]

\* C24: after two successful cleans of files with identical bytes the two
\* pointer records are identical, they name one key, and the content-addressed
\* namespace holds exactly one object with that content: the one at that key.
CleanIsContentAddressed ==
    \A f \in LfsFiles, g \in LfsFiles :
        (/\ f # g
         /\ lfsPc[f] = "cleaned" /\ lfsPc[g] = "cleaned"
         /\ lfsOrig[f] = lfsOrig[g]) =>
            /\ worktree[f] = worktree[g]
            /\ key(parsePointer(worktree[f]).oid) = key(parsePointer(worktree[g]).oid)
            /\ {k \in DOMAIN lfsStore : k # tempKey /\ lfsStore[k] = lfsOrig[f]}
                  = {key(parsePointer(worktree[f]).oid)}

CleanIsContentAddressedWitness ==
    /\ lfsPc["a.png"] = "cleaned" /\ lfsPc["b.png"] = "cleaned"
    /\ lfsOrig["a.png"] = lfsOrig["b.png"]
    /\ lfsOrig["a.png"] # <<>>
    /\ Cardinality(DOMAIN lfsStore) = 1


-----------------------------------------------------------------------------
(* stripConflictMarkers on its own *)

\* a conflict-marked file as git merge writes it: text, the local body between
\* "<<<<<<< HEAD" and "=======", the remote body up to ">>>>>>> ...", text
ConflictFile(c) ==
    c.pre \o << <<"<<<<<<<", c.eol, <<>>>> >> \o c.ours \o << <<"=======", c.eol, <<>>>> >>
          \o c.theirs \o << <<">>>>>>>", c.endEol, <<>>>> >> \o c.post

StripInit ==
    /\ \E eol \in {LF, CRLF} :
       \E pre, ours, theirs, post \in SeqsUpTo({Txt(1), <<"=======", eol, <<>>>>}, MaxBody) :
       \E endEol \in {eol, NoEol} :
          /\ endEol = NoEol => post = <<>>
          /\ strip = [pc |-> "in", pre |-> pre, ours |-> ours, theirs |-> theirs,
                      post |-> post, eol |-> eol, endEol |-> endEol, out |-> <<>>]
    /\ worktree = Tree0
    /\ commits = <<NewCommit(Tree0, {})>>
    /\ git = [HEAD |-> 1, index |-> Tree0, unmerged |-> {}, MERGE_HEAD |-> 0,
              FETCH_HEAD |-> 0, objects |-> {1}]
    /\ remote = [refs |-> 0, objects |-> {}]
    /\ lfsStore = EmptyStore
    /\ locked = FALSE
    /\ pendingMerge = NoMerge
    /\ modals = NoModals
    /\ statusBarState = "disconnected"
    /\ refreshPending = FALSE
    /\ proc = [p \in Slots |-> Idle]
    /\ last = [op |-> "none", res |-> "none"]
    /\ used = [calls |-> 0, edits |-> 0, remotes |-> 0, faults |-> 0, modals |-> 0]
    /\ lfsPc = <<>>
    /\ lfsOrig = <<>>
    /\ lfsCleans = 0
    /\ conn = Connected
    /\ ptr = NoPtr
    /\ s3run = NoS3

\* resolveMerge, resolution "both": read the file, strip, write it back
StripApply ==
    /\ strip.pc = "in"
    /\ strip' = [strip EXCEPT !.pc = "out", !.out = stripConflictMarkers(ConflictFile(strip))]
    /\ UNCHANGED <<worktree, git, commits, remote, lfsStore, locked, pendingMerge, modals,
                   statusBarState, refreshPending, proc, last, used, lfsPc, lfsOrig,
                   lfsCleans, conn, ptr, s3run>>

StripNext == StripApply

SpecStrip == StripInit /\ [][StripNext]_vars

RECURSIVE IsSubseq(_, _)
\* a is a subsequence of b: the lines of a occur in b, in order
IsSubseq(a, b) ==
    IF a = <<>> THEN TRUE
    ELSE IF b = <<>> THEN FALSE
    ELSE IF Head(a) = Head(b) THEN IsSubseq(Tail(a), Tail(b))
    ELSE IsSubseq(a, Tail(b))

\* C18: the output of the keep-both resolution holds no "<<<<<<<" line, no
\* "=======" line and no ">>>>>>>" line, whatever the line endings.
NoMarkerRemains ==
    strip.pc = "out" => \A i \in 1..Len(strip.out) : strip.out[i][1] \notin MarkerKinds

\* C19: the output of the keep-both resolution retains, in order, every line
\* before the conflict, of the local body, of the remote body and after it.
BodiesRetained ==
    strip.pc = "out" =>
        IsSubseq(strip.pre \o strip.ours \o strip.theirs \o strip.post, strip.out)

-----------------------------------------------------------------------------
(* formatPointer and parsePointer on their own *)

\* every variable of the orchestrator, the offload engine and connect at rest
AtRest ==
    /\ worktree = Tree0
    /\ commits = <<NewCommit(Tree0, {})>>
    /\ git = [HEAD |-> 1, index |-> Tree0, unmerged |-> {}, MERGE_HEAD |-> 0,
              FETCH_HEAD |-> 0, objects |-> {1}]
    /\ remote = [refs |-> 0, objects |-> {}]
    /\ lfsStore = EmptyStore
    /\ locked = FALSE
    /\ pendingMerge = NoMerge
    /\ modals = NoModals
    /\ statusBarState = "disconnected"
    /\ refreshPending = FALSE
    /\ proc = [p \in Slots |-> Idle]
    /\ last = [op |-> "none", res |-> "none"]
    /\ used = [calls |-> 0, edits |-> 0, remotes |-> 0, faults |-> 0, modals |-> 0]
    /\ lfsPc = <<>>
    /\ lfsOrig = <<>>
    /\ lfsCleans = 0
    /\ conn = Connected

RestVars == <<worktree, git, commits, remote, lfsStore, locked, pendingMerge, modals,
              statusBarState, refreshPending, proc, last, used, lfsPc, lfsOrig,
              lfsCleans, conn>>

\* either a text to parse, or a digest and a size to format and then parse
PtrInit ==
    /\ AtRest
    /\ strip = NoStrip
    /\ s3run = NoS3
    /\ \/ \E text \in SeqsUpTo({Txt(1), VersionLine, VersionLineExtra, SizeLine(1),
                                SizeLine(2), OidLine(<<Txt(1)>>), OidLine(<<Txt(2)>>),
                                OidLineBad(<<Txt(1)>>)}, MaxPtrLen) :
             ptr = [NoPtr EXCEPT !.pc = "text", !.text = text]
       \/ \E oid \in {<<Txt(1)>>, <<Txt(2)>>}, size \in {0, 1, 9, 10, 105} :
             ptr = [NoPtr EXCEPT !.pc = "format", !.formatted = TRUE,
                                 !.oid = oid, !.size = size]

\* clean: formatPointer(oid, stat.size) is written to the file
PtrFormat ==
    /\ ptr.pc = "format"
    /\ ptr' = [ptr EXCEPT !.pc = "text", !.text = formatPointer(ptr.oid, ptr.size)]
    /\ UNCHANGED <<RestVars, strip, s3run>>

\* smudge: parsePointer of the text read from the file
PtrParse ==
    /\ ptr.pc = "text"
    /\ ptr' = [ptr EXCEPT !.pc = "parsed", !.out = parsePointer(ptr.text)]
    /\ UNCHANGED <<RestVars, strip, s3run>>

PtrNext == PtrFormat \/ PtrParse

SpecPtr == PtrInit /\ [][PtrNext]_vars

\* C22: parsePointer of a text that does not start with the version token is
\* absent, and parsePointer of formatPointer(H, N) is exactly {H, N}.
PointerDiscrimination ==
    ptr.pc = "parsed" =>
        /\ ~StartsWithVersion(ptr.text) => ptr.out = NoPointer
        /\ ptr.formatted => ptr.out = [oid |-> ptr.oid, size |-> ptr.size]

PointerDiscriminationWitness ==
    /\ ptr.pc = "parsed"
    /\ ptr.formatted
    /\ ptr.size > 0
    /\ ptr.out = [oid |-> ptr.oid, size |-> ptr.size]

\* C23: parsePointer accepts a text only if it is exactly the version line,
\* the oid line and the size line, in that order -- nothing reordered,
\* nothing added, nothing after the version constant, a well-formed hash.
ParseIsStrict ==
    (ptr.pc = "parsed" /\ ptr.out # NoPointer) =>
        ptr.text = formatPointer(ptr.out.oid, ptr.out.size)

-----------------------------------------------------------------------------
(* The S3 client on its own: copy, multipartCopy, list and delete *)

\* 1024 * 1024 * 1024 bytes, in units of a quarter GiB
GiB == 4

RECURSIVE Flat(_, _)
\* results.flatMap(r => r[field])
Flat(results, field) ==
    IF results = <<>> THEN <<>> ELSE Head(results)[field] \o Flat(Tail(results), field)

\* a list that returns the last page only
listResultLastPage(results) ==
    [objects |-> results[Len(results)].objects, prefixes |-> results[Len(results)].prefixes]

\* S3.list: the objects and the prefixes of the collected pages
listResult(results) ==
    [objects |-> Flat(results, "objects"), prefixes |-> Flat(results, "prefixes")]

\* a slice that is one item short
sliceShort(items, i, size) == SubSeq(items, i + 1, Min({i + size, Len(items)}) - 1)

\* items.slice(i, i + size)
slice(items, i, size) == SubSeq(items, i + 1, Min({i + size, Len(items)}))

\* one call of copy, list or delete with its inputs and what the store holds
S3Init ==
    /\ AtRest
    /\ strip = NoStrip
    /\ ptr = NoPtr
    /\ \/ \E size \in 0..MaxCopySize :
             s3run = [NoS3 EXCEPT !.pc = "copy", !.call = "copy", !.size = size]
       \/ \E head \in 0..MaxCopySize \cup {NoSize} :
             s3run = [NoS3 EXCEPT !.pc = "copy", !.call = "copy", !.head = head]
       \/ \E pages \in SeqsUpTo([objects : SeqsUpTo({"o1", "o2"}, 1),
                                 prefixes : SeqsUpTo({"p1"}, 1),
                                 NextContinuationToken : BOOLEAN], MaxPages) :
             /\ pages # <<>>
             /\ ~pages[Len(pages)].NextContinuationToken
             /\ s3run = [NoS3 EXCEPT !.pc = "list", !.call = "list", !.pages = pages]
       \/ \E head \in {NoSize, 0, 1}, listing \in [objects : SeqsUpTo({"o1", "o2"}, 1),
                                                   prefixes : SeqsUpTo({"p1"}, 1),
                                                   NextContinuationToken : {FALSE}] :
             s3run = [NoS3 EXCEPT !.pc = "stat", !.call = "stat", !.head = head,
                                  !.pages = <<listing>>]
       \/ \E n \in {0, 1, 999, 1000, 1001, 2000, MaxKeys} :
             s3run = [NoS3 EXCEPT !.pc = "delete", !.call = "delete",
                                    !.keys = [k \in 1..n |-> k]]

\* a request the client throws on
S3Throw ==
    /\ s3run.pc \in {"single", "create", "part", "complete", "list", "batch", "statList"}
    /\ s3run' = [s3run EXCEPT !.pc = "failed"]
    /\ UNCHANGED <<RestVars, strip, ptr>>

\* copy: size ?? (await this.head(src))?.size ?? 0, then the choice of the copy
S3CopyChoose ==
    LET copySize == IF s3run.size # NoSize THEN s3run.size
                    ELSE IF s3run.head # NoSize THEN s3run.head ELSE 0
    IN  /\ s3run.pc = "copy"
        /\ s3run' = [s3run EXCEPT !.copySize = copySize,
                                  !.pc = IF copySize > 5 * GiB THEN "create" ELSE "single"]
        /\ UNCHANGED <<RestVars, strip, ptr>>

\* CopyObjectCommand
S3CopyObject ==
    /\ s3run.pc = "single"
    /\ s3run' = [s3run EXCEPT !.pc = "done",
                              !.reqs = Append(@, [cmd |-> "CopyObject"])]
    /\ UNCHANGED <<RestVars, strip, ptr>>

\* CreateMultipartUploadCommand
S3CreateMultipartUpload ==
    /\ s3run.pc = "create"
    /\ s3run' = [s3run EXCEPT !.pc = IF 0 < s3run.copySize THEN "part" ELSE "complete",
                              !.reqs = Append(@, [cmd |-> "CreateMultipartUpload"])]
    /\ UNCHANGED <<RestVars, strip, ptr>>

\* one turn of the loop of multipartCopy: UploadPartCopyCommand for the next
\* range; the part is recorded only if the answer carries an ETag
S3UploadPartCopy ==
    \E etag \in BOOLEAN :
        LET size == s3run.copySize
            i == s3run.i
            end == Min({i + GiB - 1, size - 1})
        IN  /\ s3run.pc = "part"
            /\ s3run' = [s3run EXCEPT
                  !.reqs = Append(@, [cmd |-> "UploadPartCopy", PartNumber |-> s3run.partNum,
                                      first |-> i, last |-> end]),
                  !.parts = IF etag THEN Append(@, s3run.partNum) ELSE @,
                  !.i = i + GiB,
                  !.partNum = @ + 1,
                  !.pc = IF i + GiB < size THEN "part" ELSE "complete"]
            /\ UNCHANGED <<RestVars, strip, ptr>>

\* CompleteMultipartUploadCommand with the recorded parts
S3CompleteMultipartUpload ==
    /\ s3run.pc = "complete"
    /\ s3run' = [s3run EXCEPT !.pc = "done",
                              !.reqs = Append(@, [cmd |-> "CompleteMultipartUpload",
                                                  Parts |-> s3run.parts])]
    /\ UNCHANGED <<RestVars, strip, ptr>>

\* one turn of the loop of paginate: fetch, collect, follow the token or stop
S3ListPage ==
    LET n == Len(s3run.results) + 1
        response == s3run.pages[n]
        results == Append(s3run.results, [objects |-> response.objects,
                                          prefixes |-> response.prefixes])
    IN  /\ s3run.pc = "list"
        /\ s3run' = [s3run EXCEPT
              !.reqs = Append(@, [cmd |-> "ListObjectsV2", ContinuationToken |-> n - 1]),
              !.results = results,
              !.pc = IF response.NextContinuationToken THEN "list" ELSE "done",
              !.out = IF response.NextContinuationToken THEN @ ELSE listResult(results)]
        /\ UNCHANGED <<RestVars, strip, ptr>>

\* delete: nothing to do for an empty key list
S3DeleteCall ==
    /\ s3run.pc = "delete"
    /\ s3run' = [s3run EXCEPT !.pc = IF Len(s3run.keys) = 0 THEN "done" ELSE "batch"]
    /\ UNCHANGED <<RestVars, strip, ptr>>

\* one turn of the loop of batch: DeleteObjectsCommand for the next chunk
S3DeleteObjects ==
    LET size == 1000
    IN  /\ s3run.pc = "batch"
        /\ s3run' = [s3run EXCEPT
              !.reqs = Append(@, [cmd |-> "DeleteObjects",
                                  Objects |-> slice(s3run.keys, s3run.i, size)]),
              !.i = @ + size,
              !.pc = IF s3run.i + size < Len(s3run.keys) THEN "batch" ELSE "done"]
        /\ UNCHANGED <<RestVars, strip, ptr>>

\* a test that looks at the objects only
isDirectoryObjectsOnly(objects, prefixes) == Len(objects) > 0

\* S3FS.stat: objects.length > 0 || prefixes.length > 0
isDirectory(objects, prefixes) == Len(objects) > 0 \/ Len(prefixes) > 0

\* S3FS.stat: head on the exact key; a file if it answers
S3FSStatHead ==
    /\ s3run.pc = "stat"
    /\ s3run' = [s3run EXCEPT
          !.reqs = Append(@, [cmd |-> "HeadObject"]),
          !.pc = IF s3run.head # NoSize THEN "done" ELSE "statList",
          !.out = IF s3run.head # NoSize THEN "file" ELSE @,
          !.exists = s3run.head # NoSize]
    /\ UNCHANGED <<RestVars, strip, ptr>>

\* S3FS.stat: the delimited listing at the directory prefix; S3FS.exists is
\* true if stat returned and false if it threw
S3FSStatList ==
    LET listing == s3run.pages[1]
        found == isDirectory(listing.objects, listing.prefixes)
    IN  /\ s3run.pc = "statList"
        /\ s3run' = [s3run EXCEPT
              !.reqs = Append(@, [cmd |-> "ListObjectsV2", Delimiter |-> "/"]),
              !.pc = "done",
              !.out = IF found THEN "directory" ELSE "ENOENT",
              !.exists = found]
        /\ UNCHANGED <<RestVars, strip, ptr>>

S3Next ==
    \/ S3Throw
    \/ S3FSStatHead
    \/ S3FSStatList
    \/ S3CopyChoose
    \/ S3CopyObject
    \/ S3CreateMultipartUpload
    \/ S3UploadPartCopy
    \/ S3CompleteMultipartUpload
    \/ S3ListPage
    \/ S3DeleteCall
    \/ S3DeleteObjects

SpecS3 == S3Init /\ [][S3Next]_vars

\* C25: a multipart copy issues its part-copies numbered 1..n in order over
\* contiguous ranges that start at 0 and end at size - 1, and completes the
\* upload with exactly the parts 1..n; after a failed request no completion
\* is issued.
MultipartCopyComplete ==
    LET partReqs == SelectSeq(s3run.reqs, LAMBDA r : r.cmd = "UploadPartCopy")
        completions == SelectSeq(s3run.reqs, LAMBDA r : r.cmd = "CompleteMultipartUpload")
        n == Len(partReqs)
    IN  /\ \A j \in 1..n :
              /\ partReqs[j].PartNumber = j
              /\ partReqs[j].first = IF j = 1 THEN 0 ELSE partReqs[j - 1].last + 1
              /\ partReqs[j].first <= partReqs[j].last
        /\ s3run.pc = "failed" => completions = <<>>
        /\ completions # <<>> =>
              /\ Len(completions) = 1
              /\ n > 0
              /\ partReqs[n].last = s3run.copySize - 1
              /\ completions[1].Parts = [j \in 1..n |-> j]

\* C26: copy issues a single server-side copy exactly when the size is below
\* 5 GiB and a multipart copy exactly when it is 5 GiB or more; without a
\* size hint the size is the one head reports.
CopyThreshold ==
    (s3run.call = "copy" /\ s3run.pc # "copy") =>
        /\ s3run.size # NoSize => s3run.copySize = s3run.size
        /\ (s3run.size = NoSize /\ s3run.head # NoSize) => s3run.copySize = s3run.head
        /\ s3run.pc \in {"single", "create"} =>
              (s3run.pc = "create" <=> s3run.copySize >= 5 * GiB)

\* C27: list returns the objects and the prefixes of all pages concatenated
\* in page order, with one request per page up to the first page without a
\* token, each request after the first carrying the token of the page before.
PaginationTransparent ==
    (s3run.call = "list" /\ s3run.pc = "done") =>
        LET k == Min({i \in 1..Len(s3run.pages) : ~s3run.pages[i].NextContinuationToken})
            fetched == SubSeq(s3run.pages, 1, k)
        IN  /\ s3run.out.objects = Flat(fetched, "objects")
            /\ s3run.out.prefixes = Flat(fetched, "prefixes")
            /\ Len(s3run.reqs) = k
            /\ \A i \in 1..k : s3run.reqs[i].ContinuationToken = i - 1

PaginationTransparentWitness ==
    /\ s3run.call = "list" /\ s3run.pc = "done"
    /\ Len(s3run.reqs) = MaxPages
    /\ Len(s3run.out.objects) > 1
    /\ s3run.out.objects[1] # s3run.out.objects[2]

\* C28: delete with n keys issues ceil(n / 1000) batch requests of at most
\* 1000 keys each which, put end to end, are the key list; with no keys it
\* issues no request.
DeleteBatches ==
    (s3run.call = "delete" /\ s3run.pc = "done") =>
        LET n == Len(s3run.keys)
        IN  /\ Len(s3run.reqs) = (n + 999) \div 1000
            /\ \A i \in 1..Len(s3run.reqs) :
                  /\ Len(s3run.reqs[i].Objects) <= 1000
                  /\ Len(s3run.reqs[i].Objects) > 0
            /\ Flat(s3run.reqs, "Objects") = s3run.keys

DeleteBatchesWitness ==
    /\ s3run.call = "delete" /\ s3run.pc = "done"
    /\ Len(s3run.keys) = MaxKeys
    /\ Len(s3run.reqs) = 3

\* C33: stat reports a file when head on the key answers, otherwise a
\* directory when the delimited listing returns an object or a common prefix,
\* otherwise it fails with not-found; exists is true exactly when stat
\* returns.
StatClassifies ==
    (s3run.call = "stat" /\ s3run.pc \in {"done", "failed"}) =>
        LET listing == s3run.pages[1]
        IN  /\ s3run.pc = "done" =>
                  s3run.out = IF s3run.head # NoSize THEN "file"
                              ELSE IF listing.objects # <<>> \/ listing.prefixes # <<>>
                                   THEN "directory"
                              ELSE "ENOENT"
            /\ s3run.exists <=> (s3run.pc = "done" /\ s3run.out \in {"file", "directory"})

StatClassifiesWitness ==
    /\ s3run.call = "stat" /\ s3run.pc = "done"
    /\ s3run.out = "directory"
    /\ s3run.pages[1].objects = <<>>
    /\ s3run.exists

====
